---- MODULE Spec2Model ----
(***************************************************************************)
(* node-gitlab-2-github: RepoConverter, the transfer functions of the       *)
(* entry point, and the GitLab and GitHub helpers.                         *)
(*                                                                         *)
(* The specifications share the variables:                                 *)
(*   SpecMaps          the map builders of RepoConverter and the inline    *)
(*                     maps of the transfer functions, run twice           *)
(*   Spec              recreate() and migrate(), from the top level        *)
(*   SpecBody          convertBody, pass by pass, on bounded texts         *)
(*   SpecAttachments   convertBody with attachment links                   *)
(*   SpecLineRef       addMigrationLine and createLineRef                  *)
(*   SpecTransfer      the transfer phase of migrate() and the registry    *)
(*   SpecPullRequests  the loop of transferMergeRequests                   *)
(*   SpecImport        requestImportIssue and its polling                  *)
(*   SpecNotes         convertNotes                                        *)
(*   SpecCache         the cached getters of GitLabHelper                  *)
(*   SpecComments      createComments and createComment                    *)
(*   SpecCreation      the loop of transferIssues seen from GitHub         *)
(***************************************************************************)
EXTENDS Integers, Sequences, FiniteSets, TLC

VARIABLES
    source,     \* the GitLab project: milestones, issues, mergeRequests as the API lists them
    gitlab,     \* GitLabHelper's cached arrays (sorted and spliced in place by their users)
    github,     \* the destination repository: milestones, issues (pull requests included)
    conv,       \* RepoConverter.milestoneMap / issueMap / mrMap
    settings,   \* the settings module
    pc,         \* position of the running function
    run,        \* 1 for the first run of the map phase, 2 for the rerun
    ret,        \* what each builder call / inline map loop produced in this run
    first,      \* ret as it was at the end of run 1
    err,        \* message of the error the map phase rejected with ("" if none)
    exitCode,   \* 0 while the process lives, else the code given to process.exit
    writes,     \* kinds of destination writes issued so far
    rc,         \* position of recreate(), which the top level starts and does not await
    str,        \* convertBody's local str
    bodyIn,     \* the text convertBody was called with
    item,       \* the item convertBody was called with
    addLine,    \* convertBody's add_line
    storage,    \* the calls the storage helper has received, counted by origin
    links,      \* the attachment links convertAttachments has written
    progress,   \* where the transfer loops of migrate() are, and what they have done
    counters,   \* the counters of index.ts
    requests,   \* the requests sent to the GitLab and GitHub APIs, and those still in flight
    cache,      \* GitLabHelper.allBranches / allMilestones / allIssues / allMergeRequests
    poll,       \* requestImportIssue: the polls made and the state of the import at GitHub
    promise,    \* the promise the running call returned to its caller
    noteList,   \* the notes convertNotes was called with
    comments    \* what convertNotes, createComments returned

vars == <<source, gitlab, github, conv, settings, pc, run, ret, first, err,
          exitCode, writes, rc, str, bodyIn, item, addLine, storage, links,
          progress, counters, requests, cache, poll, promise, noteList, comments>>

mapVars == <<source, gitlab, github, conv, settings, run, ret, first>>
runVars == <<err, exitCode, writes, rc>>
bodyVars == <<str, bodyIn, item, addLine>>
storageVars == <<storage, links>>
transferVars == <<progress>>
helperVars == <<counters, requests, cache, poll, promise, noteList, comments>>

(***************************************************************************)
(* Bounds of the model.                                                    *)
(***************************************************************************)
MaxIid == 3
MaxMilestoneIid == 2

(***************************************************************************)
(* Numbers.  Math.max of an empty list is -Infinity in JavaScript, and     *)
(* n + -Infinity is -Infinity; NegInf stands for it.                       *)
(***************************************************************************)
NegInf == 0 - 1000000

Plus(a, b) == IF a = NegInf \/ b = NegInf THEN NegInf ELSE a + b

MathMax2(a, b) == IF a >= b THEN a ELSE b

MathMax(S) == IF S = {} THEN NegInf ELSE CHOOSE m \in S : \A x \in S : x <= m

(***************************************************************************)
(* Map<K, V> as a function with a finite domain.                           *)
(***************************************************************************)
EmptyMap == <<>>

MapSet(map, k, v) == [x \in (DOMAIN map) \cup {k} |-> IF x = k THEN v ELSE map[x]]

MapValues(map) == {map[k] : k \in DOMAIN map}

Unset == [init |-> FALSE, map |-> EmptyMap]

Initialised(map) == [init |-> TRUE, map |-> map]

(***************************************************************************)
(* Arrays.                                                                 *)
(***************************************************************************)
InsertAt(s, i, x) == SubSeq(s, 1, i - 1) \o <<x>> \o SubSeq(s, i, Len(s))

RemoveAt(s, i) == SubSeq(s, 1, i - 1) \o SubSeq(s, i + 1, Len(s))

FindIdx(s, title) ==
    IF \E i \in 1..Len(s) : s[i].title = title
    THEN CHOOSE i \in 1..Len(s) :
            /\ s[i].title = title
            /\ \A j \in 1..(i - 1) : s[j].title # title
    ELSE 0

MinIdx(s, field) ==
    CHOOSE i \in 1..Len(s) :
        /\ \A j \in 1..Len(s) : s[i][field] <= s[j][field]
        /\ \A j \in 1..(i - 1) : s[j][field] # s[i][field]

RECURSIVE SortBy(_, _)
SortBy(s, field) ==
    IF s = <<>> THEN <<>>
    ELSE LET m == MinIdx(s, field)
         IN <<s[m]>> \o SortBy(RemoveAt(s, m), field)

Iids(s) == {s[i].iid : i \in 1..Len(s)}

(***************************************************************************)
(* RepoConverter.createPlaceholderData: typeof item is "object" for every  *)
(* kind, so the placeholder title depends on expectedIdx alone.            *)
(***************************************************************************)
createPlaceholderData(expectedIdx) ==
    [id |-> 0, iid |-> expectedIdx, title |-> <<"[PLACEHOLDER] - for object #", expectedIdx>>]

(***************************************************************************)
(* RepoConverter.buildMilestoneMap                                         *)
(***************************************************************************)
RECURSIVE milestoneMapLoop(_, _, _, _, _, _)
milestoneMapLoop(gitlabMilestones, i, githubMilestones, lastMilestoneId, milestoneMap, usePlaceholders) ==
    IF i > Len(gitlabMilestones) THEN milestoneMap
    ELSE LET milestone == gitlabMilestones[i]
             found == FindIdx(githubMilestones, milestone.title)
         IN IF found # 0
            THEN milestoneMapLoop(gitlabMilestones, i + 1, githubMilestones,
                     MathMax2(lastMilestoneId, githubMilestones[found].iid),
                     MapSet(milestoneMap, milestone.iid, githubMilestones[found]),
                     usePlaceholders)
            ELSE LET last == IF usePlaceholders
                             THEN MathMax2(lastMilestoneId, milestone.iid - 1)
                             ELSE lastMilestoneId
                 IN milestoneMapLoop(gitlabMilestones, i + 1, githubMilestones,
                        last + 1,
                        MapSet(milestoneMap, milestone.iid,
                               [iid |-> last + 1, title |-> milestone.title]),
                        usePlaceholders)

buildMilestoneMap(githubMilestones, gitlabMilestones, usePlaceholders) ==
    milestoneMapLoop(gitlabMilestones, 1, githubMilestones,
        MathMax2(0, MathMax({githubMilestones[i].iid : i \in 1..Len(githubMilestones)})),
        EmptyMap, usePlaceholders)

(***************************************************************************)
(* RepoConverter.buildIssueMap                                             *)
(***************************************************************************)
buildIssueMap(githubIssues, gitlabIssues, usePlaceholders) ==
    [n \in {githubIssues[i].number : i \in 1..Len(githubIssues)} |-> n]

(***************************************************************************)
(* RepoConverter.buildMergeRequestMap, after its guard: the loop over the  *)
(* sorted merge requests.  It records the placeholder key and moves on to  *)
(* the next merge request.                                                 *)
(***************************************************************************)
mrMapEntry(mr, expectedIdx, lastIssueNumber, usePlaceholders) ==
    IF usePlaceholders /\ mr.iid # expectedIdx
    THEN <<expectedIdx, Plus(expectedIdx, lastIssueNumber)>>
    ELSE <<mr.iid, Plus(expectedIdx, lastIssueNumber)>>

RECURSIVE mergeRequestMapLoop(_, _, _, _, _)
mergeRequestMapLoop(mergeRequests, i, lastIssueNumber, mrMap, usePlaceholders) ==
    IF i > Len(mergeRequests) THEN mrMap
    ELSE LET e == mrMapEntry(mergeRequests[i], i, lastIssueNumber, usePlaceholders)
         IN mergeRequestMapLoop(mergeRequests, i + 1, lastIssueNumber,
                MapSet(mrMap, e[1], e[2]), usePlaceholders)

lastIssueNumberOf(issueMap) == MathMax(MapValues(issueMap))

(***************************************************************************)
(* What a call settled with: a returned map, or the message it threw.      *)
(***************************************************************************)
NotCalled == [done |-> FALSE, threw |-> "", map |-> EmptyMap]

Returned(map) == [done |-> TRUE, threw |-> "", map |-> map]

Threw(msg) == [done |-> TRUE, threw |-> msg, map |-> EmptyMap]

Ok(r) == r.done /\ r.threw = ""

buildMergeRequestMap(issueMap, mergeRequests, usePlaceholders) ==
    IF ~issueMap.init THEN Threw("issueMap not initialised")
    ELSE Returned(mergeRequestMapLoop(SortBy(mergeRequests, "iid"), 1,
                      lastIssueNumberOf(issueMap.map), EmptyMap, usePlaceholders))

(***************************************************************************)
(* The inline map loops of transferMilestones, transferIssues and          *)
(* transferMergeRequests: a placeholder is spliced into the array, so the  *)
(* entity at position i is looked at again at position i + 1.  Each gives  *)
(* the array as the loop leaves it and the map.                            *)
(***************************************************************************)
RECURSIVE inlineMapLoop(_, _, _, _, _)
inlineMapLoop(items, i, offset, map, usePlaceholders) ==
    IF i > Len(items) THEN [items |-> items, map |-> map]
    ELSE IF usePlaceholders /\ items[i].iid # i
         THEN inlineMapLoop(InsertAt(items, i, createPlaceholderData(i)), i + 1, offset,
                  MapSet(map, i, Plus(i, offset)), usePlaceholders)
         ELSE inlineMapLoop(items, i + 1, offset,
                  MapSet(map, items[i].iid, Plus(i, offset)), usePlaceholders)

RECURSIVE inlineMilestoneLoop(_, _, _, _)
inlineMilestoneLoop(milestones, i, map, usePlaceholders) ==
    IF i > Len(milestones) THEN [items |-> milestones, map |-> map]
    ELSE IF usePlaceholders /\ milestones[i].iid # i
         THEN inlineMilestoneLoop(InsertAt(milestones, i, createPlaceholderData(i)), i + 1,
                  MapSet(map, i, [iid |-> i, title |-> createPlaceholderData(i).title]),
                  usePlaceholders)
         ELSE inlineMilestoneLoop(milestones, i + 1,
                  MapSet(map, milestones[i].iid, [iid |-> i, title |-> milestones[i].title]),
                  usePlaceholders)

transferIssuesMap(issues, usePlaceholders) ==
    inlineMapLoop(SortBy(issues, "iid"), 1, 0, EmptyMap, usePlaceholders)

transferMergeRequestsMap(mergeRequests, issueMap, usePlaceholders) ==
    inlineMapLoop(SortBy(mergeRequests, "iid"), 1, lastIssueNumberOf(issueMap), EmptyMap,
        usePlaceholders)

transferMilestonesMap(milestones, usePlaceholders) ==
    inlineMilestoneLoop(SortBy(milestones, "id"), 1, EmptyMap, usePlaceholders)

(***************************************************************************)
(* The creation loops of the transfer functions, as far as the destination *)
(* lists go.  GitHub numbers a new milestone after the last milestone, and *)
(* a new issue or pull request after the last issue or pull request.  The  *)
(* lookup runs against the lists fetched before the loop.                  *)
(***************************************************************************)
nextNumber(numbers) == MathMax2(0, MathMax(numbers)) + 1

IsPlaceholder(x) == x.title[1] = "[PLACEHOLDER] - for object #"

RECURSIVE createMilestones(_, _, _, _)
createMilestones(milestones, i, githubMilestones, current) ==
    IF i > Len(milestones) THEN current
    ELSE IF FindIdx(githubMilestones, milestones[i].title) # 0
         THEN createMilestones(milestones, i + 1, githubMilestones, current)
         ELSE createMilestones(milestones, i + 1, githubMilestones,
                  Append(current,
                      [iid |-> nextNumber({current[j].iid : j \in 1..Len(current)}),
                       title |-> milestones[i].title]))

RECURSIVE createIssues(_, _, _, _)
createIssues(issues, i, githubIssues, current) ==
    IF i > Len(issues) THEN current
    ELSE IF FindIdx(githubIssues, issues[i].title) # 0
         THEN createIssues(issues, i + 1, githubIssues, current)
         ELSE createIssues(issues, i + 1, githubIssues,
                  Append(current,
                      [number |-> nextNumber({current[j].number : j \in 1..Len(current)}),
                       title |-> issues[i].title, pull |-> FALSE]))

RECURSIVE createPullRequests(_, _, _, _, _)
createPullRequests(mergeRequests, i, githubIssues, current, useIssueImportAPI) ==
    IF i > Len(mergeRequests) THEN current
    ELSE IF FindIdx(githubIssues, mergeRequests[i].title) # 0
         THEN createPullRequests(mergeRequests, i + 1, githubIssues, current, useIssueImportAPI)
         ELSE IF useIssueImportAPI THEN current
         ELSE IF IsPlaceholder(mergeRequests[i])
         THEN createPullRequests(mergeRequests, i + 1, githubIssues, current, useIssueImportAPI)
         ELSE createPullRequests(mergeRequests, i + 1, githubIssues,
                  Append(current,
                      [number |-> nextNumber({current[j].number : j \in 1..Len(current)}),
                       title |-> mergeRequests[i].title, pull |-> TRUE]),
                  useIssueImportAPI)

(***************************************************************************)
(* The inputs: a GitLab project and a destination repository.              *)
(***************************************************************************)
Milestone(k) == [id |-> k, iid |-> k, title |-> <<"milestone", k>>]

Issue(k) == [id |-> k, iid |-> k, title |-> <<"issue", k>>]

MergeRequest(k) == [id |-> k, iid |-> k, title |-> <<"merge request", k>>]

\* GitLab lists issues and merge requests newest first.
RECURSIVE Descending(_)
Descending(S) ==
    IF S = {} THEN <<>>
    ELSE LET m == MathMax(S) IN <<m>> \o Descending(S \ {m})

IssueLists == {[i \in 1..Cardinality(S) |-> Issue(Descending(S)[i])] : S \in SUBSET (1..MaxIid)}

MergeRequestLists ==
    {[i \in 1..Cardinality(S) |-> MergeRequest(Descending(S)[i])] : S \in SUBSET (1..MaxIid)}

\* Milestones in any order.
DistinctSeqs(S) ==
    {q \in UNION {[1..n -> S] : n \in 0..Cardinality(S)} :
        \A i, j \in 1..Len(q) : i # j => q[i] # q[j]}

MilestoneLists ==
    {[i \in 1..Len(q) |-> Milestone(q[i])] : q \in DistinctSeqs(1..MaxMilestoneIid)}

Sources ==
    [milestones : MilestoneLists, issues : IssueLists, mergeRequests : MergeRequestLists]

\* An empty repository; one where milestone 2 was created before as number 1;
\* one with a milestone and an issue of its own.
Destinations ==
    { [milestones |-> <<>>, issues |-> <<>>],
      [milestones |-> <<[iid |-> 1, title |-> <<"milestone", 2>>]>>, issues |-> <<>>],
      [milestones |-> <<[iid |-> 2, title |-> <<"other", 0>>]>>,
       issues |-> <<[number |-> 1, title |-> <<"other", 0>>, pull |-> FALSE]>>] }

\* The converter as constructed, and as a caller of the class may have set
\* its public fields before asking for a map.
Constructed ==
    [milestoneMap |-> Unset, issueMap |-> Unset, mrMap |-> Unset, attachmentMap |-> EmptyMap]

ConverterFields ==
    { Constructed,
      [milestoneMap |-> Initialised(EmptyMap), issueMap |-> Initialised(EmptyMap),
       mrMap |-> Initialised(EmptyMap), attachmentMap |-> EmptyMap],
      [milestoneMap |-> Initialised(EmptyMap), issueMap |-> Initialised(<<1, 2>>),
       mrMap |-> Initialised(EmptyMap), attachmentMap |-> EmptyMap] }

AllTransfers ==
    {"description", "milestones", "labels", "issues", "mergeRequests", "releases", "attachments"}

PlaceholderSettings ==
    [usePlaceholderMilestonesForMissingMilestones : BOOLEAN,
     usePlaceholderIssuesForMissingIssues : BOOLEAN,
     usePlaceholderIssuesForMissingMergeRequests : BOOLEAN,
     useIssueImportAPI : BOOLEAN,
     recreateRepo : {FALSE},
     transfer : {AllTransfers},
     usermap : {<<>>},
     projectmap : {<<>>},
     s3 : {FALSE}]

NoResults ==
    [milestoneMap |-> NotCalled, issueMap |-> NotCalled, mrMap |-> NotCalled,
     transferMilestones |-> NotCalled, transferIssues |-> NotCalled,
     transferMergeRequests |-> NotCalled]

NoItem == [author |-> <<>>, created_at |-> FALSE]

IdleRun == err = "" /\ exitCode = 0 /\ writes = {} /\ rc = "idle"

IdleBody == str = <<>> /\ bodyIn = <<>> /\ item = NoItem /\ addLine = FALSE

\* No call of the storage helper yet, no link written.
NoCalls == [preprocessAttachment |-> EmptyMap, migrateAttachment |-> EmptyMap]

\* No transfer loop entered yet.
NoProgress ==
    [i |-> 0, issues |-> {}, mergeRequests |-> {}, failed |-> {}, fetched |-> <<>>]

IdleStorage == storage = NoCalls /\ links = {} /\ progress = NoProgress

\* Nothing counted, no request sent, nothing cached, no call under way.
NoCounters ==
    [nrOfMigratedMergeRequests |-> 0, nrOfFailedMergeRequests |-> 0,
     nrOfFailedIssues |-> 0, nrOfReplacementIssues |-> 0]

\* No import requested: a back-off of 0 ms, no poll made.
NoPoll ==
    [polls |-> 0, backoff |-> [num |-> 0, den |-> 1], live |-> FALSE, status |-> "",
     number |-> 0, unhandled |-> ""]

\* A promise is "none" (no call), "pending", "resolved" with a value
\* (<<>> for undefined) or "rejected" with an error.
NoPromise == [state |-> "none", value |-> <<>>, error |-> ""]

IdleHelpers ==
    /\ counters = NoCounters
    /\ requests = <<>>
    /\ cache = <<>>
    /\ poll = NoPoll
    /\ promise = NoPromise
    /\ noteList = <<>>
    /\ comments = <<>>

(***************************************************************************)
(* SpecMaps: the builders and the transfer functions called in the order   *)
(* of migrate(), then once more by a new process against the same source   *)
(* and the destination the first run left.                                 *)
(***************************************************************************)
InitMaps ==
    /\ source \in Sources
    /\ gitlab = source
    /\ github \in Destinations
    /\ conv \in ConverterFields
    /\ settings \in PlaceholderSettings
    /\ pc = "buildMilestoneMap"
    /\ run = 1
    /\ ret = NoResults
    /\ first = NoResults
    /\ IdleRun
    /\ IdleBody
    /\ IdleStorage
    /\ IdleHelpers

CallBuildMilestoneMap ==
    /\ pc = "buildMilestoneMap"
    /\ ret' = [ret EXCEPT !.milestoneMap =
                  Returned(buildMilestoneMap(github.milestones, gitlab.milestones,
                      settings.usePlaceholderMilestonesForMissingMilestones))]
    /\ pc' = "buildIssueMap"
    /\ UNCHANGED <<source, gitlab, github, conv, settings, run, first, runVars, bodyVars, storageVars, transferVars, helperVars>>

CallBuildIssueMap ==
    /\ pc = "buildIssueMap"
    /\ ret' = [ret EXCEPT !.issueMap =
                  Returned(buildIssueMap(github.issues, gitlab.issues,
                      settings.usePlaceholderIssuesForMissingIssues))]
    /\ pc' = "buildMergeRequestMap"
    /\ UNCHANGED <<source, gitlab, github, conv, settings, run, first, runVars, bodyVars, storageVars, transferVars, helperVars>>

CallBuildMergeRequestMap ==
    /\ pc = "buildMergeRequestMap"
    /\ ret' = [ret EXCEPT !.mrMap =
                  buildMergeRequestMap(conv.issueMap, gitlab.mergeRequests,
                      settings.usePlaceholderIssuesForMissingMergeRequests)]
    /\ gitlab' = IF conv.issueMap.init
                 THEN [gitlab EXCEPT !.mergeRequests = SortBy(@, "iid")]
                 ELSE gitlab
    /\ pc' = IF run = 1 THEN "transferMilestones" ELSE "done"
    /\ UNCHANGED <<source, github, conv, settings, run, first, runVars, bodyVars, storageVars, transferVars, helperVars>>

CallTransferMilestones ==
    /\ pc = "transferMilestones"
    /\ LET r == transferMilestonesMap(gitlab.milestones,
                    settings.usePlaceholderMilestonesForMissingMilestones)
       IN /\ ret' = [ret EXCEPT !.transferMilestones = Returned(r.map)]
          /\ gitlab' = [gitlab EXCEPT !.milestones = r.items]
          /\ github' = [github EXCEPT !.milestones =
                           createMilestones(r.items, 1, github.milestones, github.milestones)]
    /\ pc' = "transferIssues"
    /\ UNCHANGED <<source, conv, settings, run, first, runVars, bodyVars, storageVars, transferVars, helperVars>>

\* convertIssue calls mapMilestone, which throws when milestoneMap is not set:
\* the first issue then ends transferIssues before anything is created.
CallTransferIssues ==
    /\ pc = "transferIssues"
    /\ LET r == transferIssuesMap(gitlab.issues, settings.usePlaceholderIssuesForMissingIssues)
       IN /\ gitlab' = [gitlab EXCEPT !.issues = r.items]
          /\ IF r.items # <<>> /\ ~conv.milestoneMap.init
             THEN /\ ret' = [ret EXCEPT !.transferIssues =
                                [done |-> TRUE, threw |-> "milestoneMap not initialised",
                                 map |-> r.map]]
                  /\ UNCHANGED github
             ELSE /\ ret' = [ret EXCEPT !.transferIssues = Returned(r.map)]
                  /\ github' = [github EXCEPT !.issues =
                                   createIssues(r.items, 1, github.issues, github.issues)]
    /\ pc' = "transferMergeRequests"
    /\ UNCHANGED <<source, conv, settings, run, first, runVars, bodyVars, storageVars, transferVars, helperVars>>

\* converter.issueMap.values() is a TypeError when issueMap is not set.
CallTransferMergeRequests ==
    /\ pc = "transferMergeRequests"
    /\ IF ~conv.issueMap.init
       THEN /\ ret' = [ret EXCEPT !.transferMergeRequests = Threw("TypeError")]
            /\ gitlab' = [gitlab EXCEPT !.mergeRequests = SortBy(@, "iid")]
            /\ UNCHANGED github
       ELSE LET r == transferMergeRequestsMap(gitlab.mergeRequests, conv.issueMap.map,
                         settings.usePlaceholderIssuesForMissingMergeRequests)
            IN /\ ret' = [ret EXCEPT !.transferMergeRequests = Returned(r.map)]
               /\ gitlab' = [gitlab EXCEPT !.mergeRequests = r.items]
               /\ github' = [github EXCEPT !.issues =
                                createPullRequests(r.items, 1, github.issues, github.issues,
                                    settings.useIssueImportAPI)]
    /\ pc' = "rerun"
    /\ UNCHANGED <<source, conv, settings, run, first, runVars, bodyVars, storageVars, transferVars, helperVars>>

\* A new process: the caches are empty again and are filled from the same project.
Rerun ==
    /\ pc = "rerun"
    /\ run' = 2
    /\ first' = ret
    /\ ret' = NoResults
    /\ gitlab' = source
    /\ pc' = "buildMilestoneMap"
    /\ UNCHANGED <<source, github, conv, settings, runVars, bodyVars, storageVars, transferVars, helperVars>>

NextMaps ==
    \/ CallBuildMilestoneMap
    \/ CallBuildIssueMap
    \/ CallBuildMergeRequestMap
    \/ CallTransferMilestones
    \/ CallTransferIssues
    \/ CallTransferMergeRequests
    \/ Rerun

SpecMaps == InitMaps /\ [][NextMaps]_vars

(***************************************************************************)
(* Spec: the process from the call of migrate() on.  The converter is the  *)
(* one the top level constructed: nothing assigns its map fields, the      *)
(* .then callbacks of the map phase drop what the builders return.         *)
(* recreate() was started before migrate() and is not awaited: its         *)
(* requests interleave with the steps of migrate().  A request to GitLab   *)
(* or GitHub may fail.                                                     *)
(***************************************************************************)
RequestFailed == "request failed"

\* The kinds of writes the transfer functions issue against the destination.
TransferWrites == {"description", "milestones", "labels", "releases", "issues", "mergeRequests"}

\* The sample settings, with and without recreateRepo and with two choices of
\* what to transfer.
MigrateSettings ==
    [usePlaceholderMilestonesForMissingMilestones : {TRUE},
     usePlaceholderIssuesForMissingIssues : {TRUE},
     usePlaceholderIssuesForMissingMergeRequests : {TRUE},
     useIssueImportAPI : {TRUE},
     recreateRepo : BOOLEAN,
     transfer : {AllTransfers, {"issues", "mergeRequests"}},
     usermap : {<<>>},
     projectmap : {<<>>},
     s3 : {FALSE}]

Init ==
    /\ source \in Sources
    /\ gitlab = source
    /\ github \in Destinations
    /\ conv = Constructed
    /\ settings \in MigrateSettings
    /\ pc = "registerProjectPath"
    /\ run = 1
    /\ ret = NoResults
    /\ first = NoResults
    /\ err = ""
    /\ exitCode = 0
    /\ writes = {}
    /\ rc \in (IF settings.recreateRepo THEN {"idle", "delete"} ELSE {"idle"})
    /\ IdleBody
    /\ IdleStorage
    /\ IdleHelpers

Alive == exitCode = 0 /\ pc # "exited"

\* process.exit(code)
Exit(code) == pc' = "exited" /\ exitCode' = code

\* The handler of the first .catch of migrate().
registerCatch(e) == [exit |-> TRUE, code |-> 1]

\* A handler that logs the error and lets migrate() go on.
mapPhaseCatchLogsOnly(e) == [exit |-> FALSE, code |-> 0]

\* The handler of the .catch that ends the map phase.
mapPhaseCatch(e) == [exit |-> TRUE, code |-> 1]

RegisterProjectPath ==
    /\ pc = "registerProjectPath"
    /\ \E ok \in BOOLEAN :
          IF ok
          THEN pc' = "registerRepoId" /\ UNCHANGED <<err, exitCode>>
          ELSE err' = RequestFailed /\ Exit(registerCatch(RequestFailed).code)
    /\ UNCHANGED <<mapVars, writes, rc, bodyVars, storageVars, transferVars, helperVars>>

RegisterRepoId ==
    /\ pc = "registerRepoId"
    /\ \E ok \in BOOLEAN :
          IF ok
          THEN pc' = "buildMilestoneMap" /\ UNCHANGED <<err, exitCode>>
          ELSE err' = RequestFailed /\ Exit(registerCatch(RequestFailed).code)
    /\ UNCHANGED <<mapVars, writes, rc, bodyVars, storageVars, transferVars, helperVars>>

\* converter.buildMilestoneMap(...).then(_ => ...): the map is the value of
\* the promise and is dropped; a rejection skips the rest of the chain.
BuildMilestoneMap ==
    /\ pc = "buildMilestoneMap"
    /\ \E ok \in BOOLEAN :
          IF ok
          THEN /\ ret' = [ret EXCEPT !.milestoneMap =
                             Returned(buildMilestoneMap(github.milestones, gitlab.milestones,
                                 settings.usePlaceholderMilestonesForMissingMilestones))]
               /\ pc' = "buildIssueMap"
               /\ UNCHANGED err
          ELSE /\ ret' = [ret EXCEPT !.milestoneMap = Threw(RequestFailed)]
               /\ err' = RequestFailed
               /\ pc' = "mapPhaseSettled"
    /\ UNCHANGED <<source, gitlab, github, conv, settings, run, first, exitCode, writes, rc,
                   bodyVars, storageVars, transferVars, helperVars>>

BuildIssueMap ==
    /\ pc = "buildIssueMap"
    /\ \E ok \in BOOLEAN :
          IF ok
          THEN /\ ret' = [ret EXCEPT !.issueMap =
                             Returned(buildIssueMap(github.issues, gitlab.issues,
                                 settings.usePlaceholderIssuesForMissingIssues))]
               /\ pc' = "buildMergeRequestMap"
               /\ UNCHANGED err
          ELSE /\ ret' = [ret EXCEPT !.issueMap = Threw(RequestFailed)]
               /\ err' = RequestFailed
               /\ pc' = "mapPhaseSettled"
    /\ UNCHANGED <<source, gitlab, github, conv, settings, run, first, exitCode, writes, rc,
                   bodyVars, storageVars, transferVars, helperVars>>

\* The guard of buildMergeRequestMap throws before any request is made.
BuildMergeRequestMap ==
    /\ pc = "buildMergeRequestMap"
    /\ \E ok \in BOOLEAN :
          LET r == IF conv.issueMap.init /\ ~ok
                   THEN Threw(RequestFailed)
                   ELSE buildMergeRequestMap(conv.issueMap, gitlab.mergeRequests,
                            settings.usePlaceholderIssuesForMissingMergeRequests)
          IN /\ ret' = [ret EXCEPT !.mrMap = r]
             /\ err' = r.threw
             /\ gitlab' = IF Ok(r)
                          THEN [gitlab EXCEPT !.mergeRequests = SortBy(@, "iid")]
                          ELSE gitlab
    /\ pc' = "mapPhaseSettled"
    /\ UNCHANGED <<source, github, conv, settings, run, first, exitCode, writes, rc, bodyVars, storageVars, transferVars, helperVars>>

\* What the try block of migrate() writes, in the order of its steps.  The
\* first issue ends the block when milestoneMap is not set (mapMilestone
\* throws), and transferMergeRequests ends it when issueMap is not set.
transferPhase(c, s, src, dst) ==
    LET description == IF "description" \in s.transfer THEN {"description"} ELSE {}
        milestones ==
            IF "milestones" \in s.transfer
            THEN createMilestones(
                     transferMilestonesMap(src.milestones,
                         s.usePlaceholderMilestonesForMissingMilestones).items,
                     1, dst.milestones, dst.milestones)
            ELSE dst.milestones
        labels == IF "labels" \in s.transfer THEN {"labels"} ELSE {}
        issueItems == transferIssuesMap(src.issues, s.usePlaceholderIssuesForMissingIssues).items
        issuesThrow == "issues" \in s.transfer /\ issueItems # <<>> /\ ~c.milestoneMap.init
        issues ==
            IF "issues" \in s.transfer /\ ~issuesThrow
            THEN createIssues(issueItems, 1, dst.issues, dst.issues)
            ELSE dst.issues
        pulls ==
            IF "mergeRequests" \in s.transfer /\ ~issuesThrow /\ c.issueMap.init
            THEN createPullRequests(
                     transferMergeRequestsMap(src.mergeRequests, c.issueMap.map,
                         s.usePlaceholderIssuesForMissingMergeRequests).items,
                     1, issues, issues, s.useIssueImportAPI)
            ELSE issues
    IN [github |-> [milestones |-> milestones, issues |-> pulls],
        writes |-> description \cup labels
                   \cup (IF milestones # dst.milestones THEN {"milestones"} ELSE {})
                   \cup (IF issues # dst.issues THEN {"issues"} ELSE {})
                   \cup (IF pulls # issues THEN {"mergeRequests"} ELSE {})]

\* await <map phase>.catch(...), then the try block: the handler runs when
\* the chain rejected; when it does not end the process, and when nothing
\* was rejected, migrate() goes on to the transfers.
AwaitMapPhase ==
    /\ pc = "mapPhaseSettled"
    /\ IF err # "" /\ mapPhaseCatch(err).exit
       THEN /\ Exit(mapPhaseCatch(err).code)
            /\ UNCHANGED <<github, writes>>
       ELSE LET t == transferPhase(conv, settings, gitlab, github)
            IN /\ github' = t.github
               /\ writes' = writes \cup t.writes
               /\ pc' = "complete"
               /\ UNCHANGED exitCode
    /\ UNCHANGED <<source, gitlab, conv, settings, run, ret, first, err, rc, bodyVars, storageVars, transferVars, helperVars>>

\* githubHelper.recreateRepo(): delete the repository, then create it.
RecreateDelete ==
    /\ Alive
    /\ rc = "delete"
    /\ \E ok \in BOOLEAN :
          IF ok
          THEN /\ github' = [milestones |-> <<>>, issues |-> <<>>]
               /\ writes' = writes \cup {"repository"}
               /\ rc' = "create"
          ELSE rc' = "failed" /\ UNCHANGED <<github, writes>>
    /\ UNCHANGED <<source, gitlab, conv, settings, pc, run, ret, first, err, exitCode, bodyVars, storageVars, transferVars, helperVars>>

RecreateCreate ==
    /\ Alive
    /\ rc = "create"
    /\ rc' = "done"
    /\ UNCHANGED <<mapVars, pc, err, exitCode, writes, bodyVars, storageVars, transferVars, helperVars>>

Next ==
    \/ RegisterProjectPath
    \/ RegisterRepoId
    \/ BuildMilestoneMap
    \/ BuildIssueMap
    \/ BuildMergeRequestMap
    \/ AwaitMapPhase
    \/ RecreateDelete
    \/ RecreateCreate

Spec == Init /\ [][Next]_vars

(***************************************************************************)
(* Text.  A string is the sequence of its characters.                      *)
(***************************************************************************)
Digits == <<"0", "1", "2", "3", "4", "5", "6", "7", "8", "9">>

DigitChars == {Digits[k] : k \in 1..Len(Digits)}

Letters ==
    {"a", "b", "c", "d", "e", "f", "g", "h", "i", "j", "k", "l", "m", "n", "o", "p", "q", "r", "s", "t", "u", "v", "w", "x", "y", "z",
     "A", "B", "C", "D", "E", "F", "G", "H", "I", "J", "K", "L", "M", "N", "O", "P", "Q", "R", "S", "T", "U", "V", "W", "X", "Y", "Z"}

\* \d and \w of the regular expressions
IsDigit(c) == c \in DigitChars

IsWord(c) == c \in Letters \cup DigitChars \cup {"_"}

DigitValue(c) == (CHOOSE k \in 1..Len(Digits) : Digits[k] = c) - 1

\* parseInt of a match of \d+
RECURSIVE parseInt(_)
parseInt(digits) ==
    IF digits = <<>> THEN 0
    ELSE parseInt(SubSeq(digits, 1, Len(digits) - 1)) * 10 + DigitValue(digits[Len(digits)])

MinusInfinity ==
    <<"-", "I", "n", "f", "i", "n", "i", "t", "y">>

\* '#' + n: the decimal digits of a number, "-Infinity" for -Infinity
RECURSIVE NumberToString(_)
NumberToString(n) ==
    IF n = NegInf THEN MinusInfinity
    ELSE IF n < 10 THEN <<Digits[n + 1]>>
    ELSE NumberToString(n \div 10) \o <<Digits[(n % 10) + 1]>>

\* undefined, concatenated to a string
Undefined ==
    <<"u", "n", "d", "e", "f", "i", "n", "e", "d">>

\* s has w at position i
Starts(s, i, w) ==
    /\ i + Len(w) - 1 <= Len(s)
    /\ \A k \in 1..Len(w) : s[i + k - 1] = w[k]

\* the length of the longest run of digits at position i: a greedy \d+
RECURSIVE DigitRun(_, _)
DigitRun(s, i) == IF i <= Len(s) /\ IsDigit(s[i]) THEN 1 + DigitRun(s, i + 1) ELSE 0

\* (?<=\W): there is a character before position i, and it is not a word character
Lookbehind(s, i) == i > 1 /\ ~IsWord(s[i - 1])

\* the first position from i on where s has a character of the set, 0 if none
FirstOf(s, i, set) ==
    IF \E k \in i..Len(s) : s[k] \in set
    THEN CHOOSE k \in i..Len(s) : s[k] \in set /\ \A j \in i..(k - 1) : s[j] \notin set
    ELSE 0

Min(S) == CHOOSE m \in S : \A x \in S : m <= x

NoMatch == [len |-> 0, out |-> <<>>]

Match(len, out) == [len |-> len, out |-> out]

(***************************************************************************)
(* The constant text of the helpers.                                       *)
(***************************************************************************)
\* `${githubUrl}/${githubOwner}/` of the GitHubHelper, and its githubRepo
GithubOwnerLink ==
    <<"h", "t", "t", "p", "s", ":", "/", "/", "g", "i", "t", "h", "u", "b", ".", "c",
      "o", "m", "/", "o", "/">>

GithubRepo ==
    <<"r">>

repoLink == GithubOwnerLink \o GithubRepo

\* PassThroughStorageHelper.host and the registered GitLabHelper.projectPath
Host ==
    <<"h", "t", "t", "p", ":", "/", "/", "g", "i", "t", "l", "a", "b", ".", "c", "o",
      "m", "/">>

ProjectPath ==
    <<"g", "/", "p">>

InGitLabBy ==
    <<"I", "n", " ", "G", "i", "t", "L", "a", "b", " ", "b", "y", " ", "@">>

On ==
    <<" ", "o", "n", " ">>

\* new Date(item.created_at).toLocaleString('en-US', ...) of the one creation
\* time the items here have
FormattedDate ==
    <<"J", "a", "n", " ", "1", ",", " ", "2", "0", "2", "0", ",", " ", "1", "0", ":",
      "0", "0">>

DeletedMilestone ==
    <<"'", "R", "e", "f", "e", "r", "e", "n", "c", "e", " ", "t", "o", " ", "d", "e",
      "l", "e", "t", "e", "d", " ", "m", "i", "l", "e", "s", "t", "o", "n", "e", " ",
      "%">>

MilestonePath ==
    <<"/", "m", "i", "l", "e", "s", "t", "o", "n", "e", "/">>

MilestonesPath ==
    <<"/", "m", "i", "l", "e", "s", "t", "o", "n", "e", "s", "}", ")">>

MilestoneIn ==
    <<"[", "M", "i", "l", "e", "s", "t", "o", "n", "e", " ">>

In ==
    <<" ", "i", "n", " ">>

Uploads ==
    <<"/", "u", "p", "l", "o", "a", "d", "s">>

(***************************************************************************)
(* RepoConverter.addMigrationLine and createLineRef.  For an item without  *)
(* a diff position lineRef is the empty string.                            *)
(***************************************************************************)
HasAuthorAndDate(it) == it.author # <<>> /\ it.created_at

\* settings.github.baseUrl, which the GitHubHelper keeps as githubUrl
GithubBaseUrl ==
    <<"h", "t", "t", "p", "s", ":", "/", "/", "g", "i", "t", "h", "u", "b", ".", "c",
      "o", "m">>

CommentedOn ==
    <<"C", "o", "m", "m", "e", "n", "t", "e", "d", " ", "o", "n", " ", "[">>

Line ==
    <<" ", "l", "i", "n", "e", " ">>

Compare ==
    <<"/", "c", "o", "m", "p", "a", "r", "e", "/">>

DiffSlug ==
    <<"#", "d", "i", "f", "f", "-">>

\* crypto.createHash('md5').update(path).digest('hex'): the digest is kept
\* as a term of the path
Md5(path) == <<"m", "d", "5", "(">> \o path \o <<")">>

\* The side createLineRef links: none when neither side has line and path,
\* R with the new side when the old side lacks its line or its path, else L
\* with the old side.
lineSide(position) ==
    IF ~((position.new_line # 0 /\ position.new_path # <<>>)
            \/ (position.old_line # 0 /\ position.old_path # <<>>))
    THEN [side |-> <<>>, path |-> <<>>, line |-> 0]
    ELSE IF position.old_line = 0 \/ position.old_path = <<>>
    THEN [side |-> <<"R">>, path |-> position.new_path, line |-> position.new_line]
    ELSE [side |-> <<"L">>, path |-> position.old_path, line |-> position.old_line]

\* `Commented on [${ref}](${repoLink}/compare/${base_sha}..${head_sha}${slug})\n\n`
\* for the chosen side
lineRefOf(chosen, position, link) ==
    LET slug == IF chosen.side = <<>> THEN <<>>
                ELSE DiffSlug \o Md5(chosen.path) \o chosen.side \o NumberToString(chosen.line)
        ref == IF chosen.path # <<>> /\ chosen.line # 0
               THEN chosen.path \o Line \o NumberToString(chosen.line)
               ELSE position.head_sha
    IN CommentedOn \o ref \o <<"]", "(">> \o link \o Compare \o position.base_sha
           \o <<".", ".">> \o position.head_sha \o slug \o <<")", "\n", "\n">>

createLineRef(position, link) ==
    IF link = <<>> \/ ~Starts(link, 1, GithubBaseUrl) \/ position.head_sha = <<>>
    THEN <<>>
    ELSE lineRefOf(lineSide(position), position, link)

\* An item has a position when it is a note on a diff.
addMigrationLine(s, it, link) ==
    IF ~HasAuthorAndDate(it) THEN s
    ELSE LET attribution == InGitLabBy \o it.author \o On \o FormattedDate
             lineRef == IF "position" \in DOMAIN it THEN createLineRef(it.position, link)
                        ELSE <<>>
             summary == attribution
                            \o (IF lineRef # <<>> THEN <<"\n", "\n">> \o lineRef ELSE <<>>)
         IN summary \o <<"\n", "\n">> \o s

(***************************************************************************)
(* The replacer callbacks of convertBody.  A map field is given as it is   *)
(* on the converter: set or not.                                           *)
(***************************************************************************)
issueReplacerKeepsNumber(issueMap, match) == <<"#">> \o match

issueReplacer(issueMap, match) ==
    IF issueMap.init /\ parseInt(match) \in DOMAIN issueMap.map
    THEN <<"#">> \o NumberToString(issueMap.map[parseInt(match)])
    ELSE <<"#">> \o match

mrReplacerAsIssue(mrMap, match) ==
    IF mrMap.init /\ parseInt(match) \in DOMAIN mrMap.map
    THEN <<"#">> \o NumberToString(mrMap.map[parseInt(match)])
    ELSE <<"#">> \o match

mrReplacer(mrMap, match) ==
    IF mrMap.init /\ parseInt(match) \in DOMAIN mrMap.map
    THEN <<"#">> \o NumberToString(mrMap.map[parseInt(match)])
    ELSE <<"!">> \o match

\* The milestone of the map with the title: the first in the order of the
\* keys (the maps here have one milestone per title).
milestoneReplacer(milestoneMap, number, title) ==
    LET map == milestoneMap.map
        byTitle == {k \in DOMAIN map : map[k].title = title}
        found == IF ~milestoneMap.init THEN {}
                 ELSE IF number # <<>>
                 THEN {k \in DOMAIN map : k = parseInt(number)}
                 ELSE IF title # <<>> /\ byTitle # {} THEN {Min(byTitle)}
                 ELSE {}
    IN IF found # {}
       THEN LET milestone == map[CHOOSE k \in found : TRUE]
            IN <<"[">> \o milestone.title \o <<"]", "(">> \o repoLink \o MilestonePath
                   \o NumberToString(milestone.iid) \o <<")">>
       ELSE DeletedMilestone \o (IF number # <<>> THEN number ELSE title) \o <<"'">>

\* PassThroughStorageHelper.preprocessAttachment
preprocessAttachment(url) == [origin |-> url, destination |-> Host \o ProjectPath \o url]

(***************************************************************************)
(* The regular expressions of convertBody: what each matches at position i *)
(* of s and what its callback puts there.  usermap and projectmap are the  *)
(* settings objects as sequences of <<key, value>> in the order of         *)
(* Object.keys; the keys here have no character that is special in a       *)
(* regular expression.                                                     *)
(***************************************************************************)
\* '@' + keys.join('|@')
userNameAt(usermap, s, i) ==
    LET hits == {j \in 1..Len(usermap) : Starts(s, i, <<"@">> \o usermap[j][1])}
    IN IF hits = {} THEN NoMatch
       ELSE Match(1 + Len(usermap[Min(hits)][1]), <<"@">> \o usermap[Min(hits)][2])

\* '(' + keys.join(')SIGIL(\\d+)|(') + ')SIGIL(\\d+)' with the callback
\* (_, p1, p2) => projectmap[p1] + '#' + p2: p1 and p2 are the groups of the
\* first alternative, undefined when another alternative matched.
projectReferenceAt(projectmap, sigil, s, i) ==
    LET hits == {j \in 1..Len(projectmap) :
                    /\ Starts(s, i, projectmap[j][1] \o <<sigil>>)
                    /\ DigitRun(s, i + Len(projectmap[j][1]) + 1) > 0}
        j == Min(hits)
        from == i + Len(projectmap[j][1]) + 1
        n == DigitRun(s, from)
    IN IF hits = {} THEN NoMatch
       ELSE Match(Len(projectmap[j][1]) + 1 + n,
                IF j = 1
                THEN projectmap[1][2] \o <<"#">> \o SubSeq(s, from, from + n - 1)
                ELSE Undefined \o <<"#">> \o Undefined)

\* '(?<=\\W)#(\\d+)' with (_, p1) => issueReplacer(p1)
issueReferenceAt(issueMap, s, i) ==
    IF s[i] = "#" /\ Lookbehind(s, i) /\ DigitRun(s, i + 1) > 0
    THEN Match(1 + DigitRun(s, i + 1),
             issueReplacer(issueMap, SubSeq(s, i + 1, i + DigitRun(s, i + 1))))
    ELSE NoMatch

\* '(?<=\\W)!(\\d+)' with (_, p1) => mrReplacer(p1)
mergeRequestReferenceAt(mrMap, s, i) ==
    IF s[i] = "!" /\ Lookbehind(s, i) /\ DigitRun(s, i + 1) > 0
    THEN Match(1 + DigitRun(s, i + 1),
             mrReplacer(mrMap, SubSeq(s, i + 1, i + DigitRun(s, i + 1))))
    ELSE NoMatch

\* The closing quote of ".*?" whose opening quote is at position q: the next
\* quote, unless a line ends before it.
ClosingQuote(s, q) ==
    LET k == FirstOf(s, q + 1, {"\"", "\n", "\r"})
    IN IF k # 0 /\ s[k] = "\"" THEN k ELSE 0

\* '(' + keys.join(')%(".*?")|(') + ')%(".*?")'
projectMilestoneTitleAt(projectmap, s, i) ==
    LET hits == {j \in 1..Len(projectmap) :
                    /\ Starts(s, i, projectmap[j][1] \o <<"%", "\"">>)
                    /\ ClosingQuote(s, i + Len(projectmap[j][1]) + 1) # 0}
        j == Min(hits)
        q == i + Len(projectmap[j][1]) + 1
        p1 == IF j = 1 THEN projectmap[1][1] ELSE Undefined
        p2 == IF j = 1 THEN SubSeq(s, q, ClosingQuote(s, q)) ELSE Undefined
        mapped == IF j = 1 THEN projectmap[1][2] ELSE Undefined
    IN IF hits = {} THEN NoMatch
       ELSE Match(ClosingQuote(s, q) - i + 1,
                MilestoneIn \o <<"\"">> \o p2 \o <<"\"">> \o In \o mapped \o <<"]", "(">>
                    \o GithubOwnerLink \o mapped \o MilestonesPath)

\* '(' + keys.join(')%(\\d+)|(') + ')%(\\d+)'
projectMilestoneNumberAt(projectmap, s, i) ==
    LET hits == {j \in 1..Len(projectmap) :
                    /\ Starts(s, i, projectmap[j][1] \o <<"%">>)
                    /\ DigitRun(s, i + Len(projectmap[j][1]) + 1) > 0}
        j == Min(hits)
        from == i + Len(projectmap[j][1]) + 1
        p2 == IF j = 1 THEN SubSeq(s, from, from + DigitRun(s, from) - 1) ELSE Undefined
        mapped == IF j = 1 THEN projectmap[1][2] ELSE Undefined
    IN IF hits = {} THEN NoMatch
       ELSE Match(Len(projectmap[j][1]) + 1 + DigitRun(s, from),
                MilestoneIn \o p2 \o In \o mapped \o <<"]", "(">>
                    \o GithubOwnerLink \o mapped \o MilestonePath \o p2 \o <<")">>)

\* '(?<=\\W)%"(.*?)"' with (_, p1) => milestoneReplacer('', p1)
milestoneTitleAt(milestoneMap, s, i) ==
    IF /\ Starts(s, i, <<"%", "\"">>)
       /\ Lookbehind(s, i)
       /\ ClosingQuote(s, i + 1) # 0
    THEN Match(ClosingQuote(s, i + 1) - i + 1,
             milestoneReplacer(milestoneMap, <<>>, SubSeq(s, i + 2, ClosingQuote(s, i + 1) - 1)))
    ELSE NoMatch

\* '(?<=\\W)%(\\d+)' with (_, p1) => milestoneReplacer(p1, '')
milestoneNumberAt(milestoneMap, s, i) ==
    IF s[i] = "%" /\ Lookbehind(s, i) /\ DigitRun(s, i + 1) > 0
    THEN Match(1 + DigitRun(s, i + 1),
             milestoneReplacer(milestoneMap, SubSeq(s, i + 1, i + DigitRun(s, i + 1)), <<>>))
    ELSE NoMatch

\* /(!?)\[([^\]]+)\]\((\/uploads[^)]+)\)/ of convertAttachments: the link at
\* position i, its groups prefix, name and url.
attachmentLinkAt(s, i) ==
    LET open == IF Starts(s, i, <<"!", "[">>) THEN i + 1 ELSE i
        close == FirstOf(s, open + 1, {"]"})
        end == FirstOf(s, close + 2, {")"})
    IN IF /\ s[open] = "["
          /\ close > open + 1
          /\ Starts(s, close + 1, <<"(">> \o Uploads)
          /\ end > close + 2 + Len(Uploads)
       THEN [len |-> end - i + 1,
             prefix |-> SubSeq(s, i, open - 1),
             name |-> SubSeq(s, open + 1, close - 1),
             url |-> SubSeq(s, close + 2, end - 1)]
       ELSE NoMatch

(***************************************************************************)
(* str.replace(new RegExp(reString, 'g'), callback): the matches are       *)
(* looked for from left to right in the text as it was given, each from    *)
(* the end of the one before.                                              *)
(***************************************************************************)
matchAt(pass, s, i) ==
    CASE pass = "usermap" -> userNameAt(settings.usermap, s, i)
      [] pass = "projectIssue" -> projectReferenceAt(settings.projectmap, "#", s, i)
      [] pass = "issue" -> issueReferenceAt(conv.issueMap, s, i)
      [] pass = "projectMilestoneTitle" -> projectMilestoneTitleAt(settings.projectmap, s, i)
      [] pass = "projectMilestoneNumber" -> projectMilestoneNumberAt(settings.projectmap, s, i)
      [] pass = "milestoneTitle" -> milestoneTitleAt(conv.milestoneMap, s, i)
      [] pass = "milestoneNumber" -> milestoneNumberAt(conv.milestoneMap, s, i)
      [] pass = "projectMergeRequest" -> projectReferenceAt(settings.projectmap, "!", s, i)
      [] pass = "mergeRequest" -> mergeRequestReferenceAt(conv.mrMap, s, i)
      [] pass = "attachment" -> attachmentLinkAt(s, i)

\* the first position from i on where the pass has a match, 0 if none
earliest(offsets) == IF offsets = {} THEN 0 ELSE Min(offsets)

nextMatch(pass, s, i) ==
    earliest({k \in i..Len(s) : matchAt(pass, s, k).len > 0})

RECURSIVE replace(_, _, _)
\* the text from i on, given the match m found at k
replaceMatch(pass, s, i, k, m) ==
    SubSeq(s, i, k - 1) \o m.out \o replace(pass, s, k + m.len)

\* the text from i on, given the offset k of the next match (0 if none)
replaceFrom(pass, s, i, k) ==
    IF k = 0 THEN SubSeq(s, i, Len(s))
    ELSE replaceMatch(pass, s, i, k, matchAt(pass, s, k))

replace(pass, s, i) ==
    replaceFrom(pass, s, i, nextMatch(pass, s, i))

\* body.matchAll(regexp): the offsets of the matches from i on
RECURSIVE matchOffsets(_, _)
offsetsFrom(s, k) ==
    IF k = 0 THEN <<>>
    ELSE <<k>> \o matchOffsets(s, k + attachmentLinkAt(s, k).len)

matchOffsets(s, i) ==
    offsetsFrom(s, nextMatch("attachment", s, i))

\* one more call with the origin
Called(calls, origin) ==
    MapSet(calls, origin, (IF origin \in DOMAIN calls THEN calls[origin] ELSE 0) + 1)

\* `${prefix}[${name}](${data.origin})`
attachmentLinkToOrigin(prefix, name, data) ==
    prefix \o <<"[">> \o name \o <<"]", "(">> \o data.origin \o <<")">>

\* `${prefix}[${name}](${data.destination})`
attachmentLink(prefix, name, data) ==
    prefix \o <<"[">> \o name \o <<"]", "(">> \o data.destination \o <<")">>

\* The loop over the matches: c holds attachmentMap, offsetToAttachment, the
\* calls of preprocessAttachment and the links written.
RECURSIVE attachmentLoop(_, _, _)
attachmentLoop(c, s, offsets) ==
    IF offsets = <<>> THEN c
    ELSE LET match == attachmentLinkAt(s, Head(offsets))
             data == preprocessAttachment(match.url)
         IN attachmentLoop(
                [attachmentMap |-> MapSet(c.attachmentMap, data.origin, data),
                 offsetToAttachment |->
                     MapSet(c.offsetToAttachment, Head(offsets),
                         attachmentLink(match.prefix, match.name, data)),
                 calls |-> Called(c.calls, match.url),
                 links |-> c.links \cup {data}],
                s, Tail(offsets))

\* the first entry of the table, whatever the offset
firstReplacement(table, offset) == table[Min(DOMAIN table)]

\* offsetToAttachment[offset]
replacementAt(table, offset) == table[offset]

\* body.replace(regexp, (..., offset, ...) => offsetToAttachment[offset])
RECURSIVE replaceByOffset(_, _, _)
replaceOffset(s, table, i, k) ==
    IF k = 0 THEN SubSeq(s, i, Len(s))
    ELSE SubSeq(s, i, k - 1)
             \o replacementAt(table, k)
             \o replaceByOffset(s, table, k + attachmentLinkAt(s, k).len)

replaceByOffset(s, table, i) ==
    replaceOffset(s, table, i, nextMatch("attachment", s, i))

\* convertAttachments(body) on a converter with the attachmentMap, the calls
\* of preprocessAttachment so far and the links written so far
replaced(body, c) ==
    [str |-> replaceByOffset(body, c.offsetToAttachment, 1),
     attachmentMap |-> c.attachmentMap,
     calls |-> c.calls,
     links |-> c.links]

convertAttachments(attachmentMap, calls, written, body) ==
    replaced(body,
        attachmentLoop(
            [attachmentMap |-> attachmentMap, offsetToAttachment |-> EmptyMap,
             calls |-> calls, links |-> written],
            body, matchOffsets(body, 1)))

hasUsermap == settings.usermap # <<>>

hasProjectmap == settings.projectmap # <<>>

(***************************************************************************)
(* The texts, items, maps and settings convertBody is called with.         *)
(***************************************************************************)
MaxLen == 3

Alphabet == {"s", " ", "#", "!", "3", "9"}

ShortTexts == UNION {[1..n -> Alphabet] : n \in 0..MaxLen}

SeeIssue3 ==
    <<"s", "e", "e", " ", "#", "3">>

SeeIssue42 ==
    <<"s", "e", "e", " ", "#", "4", "2">>

SeeIssue99 ==
    <<"s", "e", "e", " ", "#", "9", "9">>

SeeMergeRequest3 ==
    <<"s", "e", "e", " ", "!", "3">>

SeePullRequest45 ==
    <<"s", "e", "e", " ", "#", "4", "5">>

SeeMergeRequest99 ==
    <<"s", "e", "e", " ", "!", "9", "9">>

SeveralReferences ==
    <<"#", "3", " ", "f", "i", "x", "e", "s", " ", "#", "3", ",", " ", "(", "!", "3",
      ")", " ", "#", "9", "9", ";", "!", "9", " ", "x", "#", "3", " ", "#", "0", "3",
      "9">>

ProjectReferences ==
    <<"s", "#", "3", " ", "s", "s", "#", "3", " ", "s", "!", "9", " ", "s", "s", "%",
      "3", " ", "s", "%", "\"", "s", "\"">>

MilestoneReferences ==
    <<"%", "3", " ", "i", "n", " ", "%", "3", ",", " ", "%", "9", " ", "o", "r", " ",
      "%", "\"", "s", "\"", " ", "#", "3">>

Mentions ==
    <<"@", "s", " ", "@", "s", "s", " ", "#", "3">>

Attachments ==
    <<"!", "[", "s", "]", "(", "/", "u", "p", "l", "o", "a", "d", "s", "/", "s", ")",
      " ", "[", "s", "]", "(", "/", "u", "p", "l", "o", "a", "d", "s", "/", "s", ")",
      " ", "!", "3">>

SecondProjectIssue3 ==
    <<"s", "s", "#", "3">>

OnlyMilestone42 ==
    <<"%", "4", "2">>

Milestone9 ==
    <<" ", "%", "9">>

QuotedMilestone9 ==
    <<" ", "%", "\"", "9", "\"">>

MentionOfS ==
    <<" ", "@", "s">>

ProjectIssue3 ==
    <<" ", "s", "#", "3">>

ProjectMergeRequest3 ==
    <<" ", "s", "!", "3">>

ProjectMilestone3 ==
    <<" ", "s", "%", "3">>

Examples ==
    {SeeIssue3, SeeIssue99, SeeMergeRequest3, SeeMergeRequest99, SeveralReferences,
     ProjectReferences, MilestoneReferences, Mentions, Attachments, SecondProjectIssue3,
     OnlyMilestone42, Milestone9, QuotedMilestone9, MentionOfS, ProjectIssue3,
     ProjectMergeRequest3, ProjectMilestone3}

Bodies == ShortTexts \cup Examples

\* A milestone (no author), and an issue or note by user s.
Items == {NoItem, [author |-> <<"s">>, created_at |-> TRUE]}

\* The converter as constructed, and with maps as a caller may have set them.
\* The second mrMap is what buildMergeRequestMap gives for an empty issue map;
\* the milestone with it has a title that reads as a merge request reference.
BodyConverters ==
    { Constructed,
      [milestoneMap |-> Initialised(3 :> [iid |-> 1, title |-> <<"s">>]),
       issueMap |-> Initialised(3 :> 42),
       mrMap |-> Initialised(3 :> 45),
       attachmentMap |-> EmptyMap],
      [milestoneMap |-> Initialised(9 :> [iid |-> 2, title |-> <<"!", "9">>]),
       issueMap |-> Initialised((3 :> 4) @@ (39 :> 40)),
       mrMap |-> Initialised((3 :> NegInf) @@ (9 :> 41)),
       attachmentMap |-> EmptyMap] }

\* No user and project maps; and user s mapped to t, projects s and ss mapped
\* to t and tt, attachments not transferred.
PlainSettings ==
    [usePlaceholderMilestonesForMissingMilestones |-> TRUE,
     usePlaceholderIssuesForMissingIssues |-> TRUE,
     usePlaceholderIssuesForMissingMergeRequests |-> TRUE,
     useIssueImportAPI |-> TRUE,
     recreateRepo |-> FALSE,
     transfer |-> AllTransfers,
     usermap |-> <<>>,
     projectmap |-> <<>>,
     s3 |-> FALSE]

BodySettings ==
    { PlainSettings,
      [PlainSettings EXCEPT
          !.transfer = AllTransfers \ {"attachments"},
          !.usermap = << <<(<<"s">>), (<<"t">>)>> >>,
          !.projectmap = << <<(<<"s">>), (<<"t">>)>>, <<(<<"s", "s">>), (<<"t", "t">>)>> >>] }

EmptyProject == [milestones |-> <<>>, issues |-> <<>>, mergeRequests |-> <<>>]

EmptyRepository == [milestones |-> <<>>, issues |-> <<>>]

(***************************************************************************)
(* SpecBody: one call convertBody(str, item, add_line), pass by pass.      *)
(***************************************************************************)
InitBody ==
    /\ source = EmptyProject
    /\ gitlab = source
    /\ github = EmptyRepository
    /\ conv \in BodyConverters
    /\ settings \in BodySettings
    /\ pc = "addMigrationLine"
    /\ run = 1
    /\ ret = NoResults
    /\ first = NoResults
    /\ IdleRun
    /\ bodyIn \in Bodies
    /\ str = bodyIn
    /\ item \in Items
    /\ addLine \in BOOLEAN
    /\ IdleStorage
    /\ IdleHelpers

AddMigrationLine ==
    /\ pc = "addMigrationLine"
    /\ str' = IF addLine THEN addMigrationLine(str, item, repoLink) ELSE str
    /\ pc' = "usermap"
    /\ UNCHANGED <<mapVars, runVars, bodyIn, item, addLine, storageVars, transferVars, helperVars>>

ConvertUserNames ==
    /\ pc = "usermap"
    /\ str' = IF hasUsermap THEN replace("usermap", str, 1) ELSE str
    /\ pc' = "projectIssue"
    /\ UNCHANGED <<mapVars, runVars, bodyIn, item, addLine, storageVars, transferVars, helperVars>>

ConvertProjectIssueReferences ==
    /\ pc = "projectIssue"
    /\ str' = IF hasProjectmap THEN replace("projectIssue", str, 1) ELSE str
    /\ pc' = "issue"
    /\ UNCHANGED <<mapVars, runVars, bodyIn, item, addLine, storageVars, transferVars, helperVars>>

ConvertIssueReferences ==
    /\ pc = "issue"
    /\ str' = replace("issue", str, 1)
    /\ pc' = "milestone"
    /\ UNCHANGED <<mapVars, runVars, bodyIn, item, addLine, storageVars, transferVars, helperVars>>

ConvertMilestoneReferences ==
    /\ pc = "milestone"
    /\ LET linked == IF hasProjectmap
                     THEN replace("projectMilestoneNumber",
                              replace("projectMilestoneTitle", str, 1), 1)
                     ELSE str
       IN str' = replace("milestoneNumber", replace("milestoneTitle", linked, 1), 1)
    /\ pc' = "projectMergeRequest"
    /\ UNCHANGED <<mapVars, runVars, bodyIn, item, addLine, storageVars, transferVars, helperVars>>

ConvertProjectMergeRequestReferences ==
    /\ pc = "projectMergeRequest"
    /\ str' = IF hasProjectmap THEN replace("projectMergeRequest", str, 1) ELSE str
    /\ pc' = "mergeRequest"
    /\ UNCHANGED <<mapVars, runVars, bodyIn, item, addLine, storageVars, transferVars, helperVars>>

ConvertMergeRequestReferences ==
    /\ pc = "mergeRequest"
    /\ str' = replace("mergeRequest", str, 1)
    /\ pc' = "attachment"
    /\ UNCHANGED <<mapVars, runVars, bodyIn, item, addLine, storageVars, transferVars, helperVars>>

ConvertAttachments ==
    /\ pc = "attachment"
    /\ IF "attachments" \in settings.transfer
       THEN LET r == convertAttachments(conv.attachmentMap, storage.preprocessAttachment,
                         links, str)
            IN /\ str' = r.str
               /\ conv' = [conv EXCEPT !.attachmentMap = r.attachmentMap]
               /\ storage' = [storage EXCEPT !.preprocessAttachment = r.calls]
               /\ links' = r.links
       ELSE UNCHANGED <<str, conv, storage, links>>
    /\ pc' = "returned"
    /\ UNCHANGED <<source, gitlab, github, settings, run, ret, first, runVars, bodyIn, item,
                   addLine, transferVars, helperVars>>

NextBody ==
    \/ AddMigrationLine
    \/ ConvertUserNames
    \/ ConvertProjectIssueReferences
    \/ ConvertIssueReferences
    \/ ConvertMilestoneReferences
    \/ ConvertProjectMergeRequestReferences
    \/ ConvertMergeRequestReferences
    \/ ConvertAttachments

SpecBody == InitBody /\ [][NextBody]_vars

(***************************************************************************)
(* Properties of the maps (SpecMaps).                                      *)
(***************************************************************************)
KeysCover(map, items) == Iids(items) \subseteq DOMAIN map

Injective(map) == \A a, b \in DOMAIN map : a # b => map[a] # map[b]

MilestoneNumbers(map) == [k \in DOMAIN map |-> map[k].iid]

LastIid(items) == MathMax2(0, MathMax(Iids(items)))

AboveIssues(map, items, issueMap) ==
    \A iid \in Iids(items) :
        /\ iid \in DOMAIN map
        /\ map[iid] > MathMax(MapValues(issueMap))

CountsFromOne(map, items) ==
    Iids(items) = 1..Len(items) => \A k \in 1..Len(items) : k \in DOMAIN map /\ map[k] = k

\* C1: every identifier map a builder produces (buildMilestoneMap,
\* buildMergeRequestMap, the issue map of transferIssues) has every source iid
\* and every inserted placeholder iid as a key, and no two keys share a
\* destination number.
C1_MapsTotalAndInjective ==
    /\ Ok(ret.milestoneMap) =>
          /\ KeysCover(ret.milestoneMap.map, source.milestones)
          /\ Injective(MilestoneNumbers(ret.milestoneMap.map))
    /\ Ok(ret.mrMap) =>
          /\ KeysCover(ret.mrMap.map, source.mergeRequests)
          /\ Injective(ret.mrMap.map)
    /\ ret.transferIssues.done =>
          /\ KeysCover(ret.transferIssues.map, gitlab.issues)
          /\ Injective(ret.transferIssues.map)

\* C2: with placeholders on, every integer from 1 to the largest source iid
\* is a key of the map buildMergeRequestMap returns and of the inline maps of
\* transferIssues and transferMergeRequests.
C2_PlaceholdersFillEveryGap ==
    /\ (Ok(ret.mrMap) /\ settings.usePlaceholderIssuesForMissingMergeRequests) =>
          1..LastIid(source.mergeRequests) \subseteq DOMAIN ret.mrMap.map
    /\ (ret.transferIssues.done /\ settings.usePlaceholderIssuesForMissingIssues) =>
          1..LastIid(source.issues) \subseteq DOMAIN ret.transferIssues.map
    /\ (Ok(ret.transferMergeRequests) /\ settings.usePlaceholderIssuesForMissingMergeRequests) =>
          1..LastIid(source.mergeRequests) \subseteq DOMAIN ret.transferMergeRequests.map

\* C3: with placeholders off, the keys of each built map, the one
\* buildIssueMap returns included, are exactly the iids of the source entities.
C3_KeysAreTheSourceIids ==
    /\ (Ok(ret.milestoneMap) /\ ~settings.usePlaceholderMilestonesForMissingMilestones) =>
          DOMAIN ret.milestoneMap.map = Iids(source.milestones)
    /\ (Ok(ret.issueMap) /\ ~settings.usePlaceholderIssuesForMissingIssues) =>
          DOMAIN ret.issueMap.map = Iids(source.issues)
    /\ (Ok(ret.mrMap) /\ ~settings.usePlaceholderIssuesForMissingMergeRequests) =>
          DOMAIN ret.mrMap.map = Iids(source.mergeRequests)

\* C4: given a non-empty issue map, every merge-request iid maps to a
\* number strictly greater than the largest value of the issue map.
C4_MergeRequestsAfterIssues ==
    /\ (Ok(ret.mrMap) /\ conv.issueMap.map # EmptyMap) =>
          AboveIssues(ret.mrMap.map, source.mergeRequests, conv.issueMap.map)
    /\ (Ok(ret.transferMergeRequests) /\ conv.issueMap.map # EmptyMap) =>
          AboveIssues(ret.transferMergeRequests.map, source.mergeRequests, conv.issueMap.map)

\* C5: with an initialised, empty issue map and merge requests 1..n, the k-th
\* merge request maps to k.
C5_EmptyIssueMapNumbersFromOne ==
    /\ (Ok(ret.mrMap) /\ conv.issueMap.map = EmptyMap) =>
          CountsFromOne(ret.mrMap.map, source.mergeRequests)
    /\ (Ok(ret.transferMergeRequests) /\ conv.issueMap.map = EmptyMap) =>
          CountsFromOne(ret.transferMergeRequests.map, source.mergeRequests)

\* C6: built again against the same source and the destination the first run
\* left, the milestone, issue and merge-request maps are the maps of the
\* first build.
C6_RerunBuildsTheSameMaps ==
    (run = 2 /\ pc = "done") =>
        /\ ret.milestoneMap = first.milestoneMap
        /\ ret.issueMap = first.issueMap
        /\ ret.mrMap = first.mrMap

(***************************************************************************)
(* Properties of migrate() (Spec).                                         *)
(***************************************************************************)
IssueMapNotInitialised == "issueMap not initialised"

\* C7: asking for the merge-request map while the converter has no issue
\* map fails with 'issueMap not initialised'; the error ends the process with
\* exit code 1, and no milestone, label, issue, pull request, comment,
\* description or release has been written before it or is written after it.
C7_MissingIssueMapIsFatalBeforeAnyWrite ==
    /\ []((ret.mrMap.done /\ ~conv.issueMap.init) =>
              /\ ret.mrMap = Threw(IssueMapNotInitialised)
              /\ err = IssueMapNotInitialised)
    /\ [](err = IssueMapNotInitialised =>
              /\ writes \cap TransferWrites = {}
              /\ pc \in {"mapPhaseSettled", "exited"}
              /\ (pc = "exited" => exitCode = 1))
    /\ [][(err = IssueMapNotInitialised /\ pc' # pc) => (pc' = "exited" /\ exitCode' = 1)]_vars

C7_Witness ==
    /\ pc = "exited"
    /\ exitCode = 1
    /\ err = IssueMapNotInitialised
    /\ ret.mrMap = Threw(IssueMapNotInitialised)
    /\ Ok(ret.issueMap)
    /\ writes \cap TransferWrites = {}

\* C8: in migrate() the map phase (milestone map, issue map, merge-request
\* map) completes successfully before a transfer starts, and from then on
\* the converter's milestoneMap, issueMap and mrMap are the maps the builders
\* returned.
C8_MapPhaseCompletesAndFieldsHoldTheMaps ==
    /\ Ok(ret.milestoneMap) => conv.milestoneMap = Initialised(ret.milestoneMap.map)
    /\ Ok(ret.issueMap) => conv.issueMap = Initialised(ret.issueMap.map)
    /\ (Ok(ret.milestoneMap) /\ Ok(ret.issueMap) /\ ret.mrMap.done /\ err # RequestFailed) =>
          /\ Ok(ret.mrMap)
          /\ conv.mrMap = Initialised(ret.mrMap.map)
    /\ (writes \cap TransferWrites # {}) =>
          Ok(ret.milestoneMap) /\ Ok(ret.issueMap) /\ Ok(ret.mrMap)

(***************************************************************************)
(* Properties of convertBody (SpecBody).  A same-project reference is the  *)
(* sigil and the digits after it, where a character that is not a word     *)
(* character stands before the sigil.                                      *)
(***************************************************************************)
ReferenceStarts(s, sigil) ==
    {i \in 2..(Len(s) - 1) : s[i] = sigil /\ ~IsWord(s[i - 1]) /\ IsDigit(s[i + 1])}

NumberEnd(s, i) ==
    CHOOSE j \in (i + 1)..Len(s) :
        /\ \A k \in (i + 1)..j : IsDigit(s[k])
        /\ j = Len(s) \/ ~IsDigit(s[j + 1])

\* '#' and the mapped number when the number is a key, else the reference as it is
Resolved(field, sigil, number) ==
    IF field.init /\ parseInt(number) \in DOMAIN field.map
    THEN <<"#">> \o NumberToString(field.map[parseInt(number)])
    ELSE <<sigil>> \o number

\* the text from position k on: what is between the references as it is, and
\* every reference resolved
RECURSIVE ResolvedFrom(_, _, _, _)
ResolvedFrom(s, sigil, field, k) ==
    LET ahead == {i \in ReferenceStarts(s, sigil) : i >= k}
    IN  IF ahead = {} THEN SubSeq(s, k, Len(s))
        ELSE SubSeq(s, k, Min(ahead) - 1)
                 \o Resolved(field, sigil, SubSeq(s, Min(ahead) + 1, NumberEnd(s, Min(ahead))))
                 \o ResolvedFrom(s, sigil, field, NumberEnd(s, Min(ahead)) + 1)

WithReferencesResolved(s, sigil, field) == ResolvedFrom(s, sigil, field, 1)

\* What convertBody returned is the text, after the attribution line if the
\* call added one.
ReturnedText(text) ==
    IF addLine /\ HasAuthorAndDate(item)
    THEN /\ Len(str) >= Len(text) + 2
         /\ SubSeq(str, Len(str) - Len(text) - 1, Len(str)) = <<"\n", "\n">> \o text
    ELSE str = text

\* C9: the issue pass of convertBody rewrites every same-project reference
\* '#n' whose n is a key of the issue map to '#' and issueMap[n] and leaves
\* every other '#n', and the rest of the text, as it is; 'see #3' with
\* issueMap[3] = 42 is returned as 'see #42', and 'see #99' with 99 not a key
\* as 'see #99'.
C9_IssueReferencesResolvedThroughIssueMap ==
    /\ [][(pc = "issue" /\ pc' # pc) =>
             str' = WithReferencesResolved(str, "#", conv.issueMap)]_vars
    /\ []((pc = "returned" /\ bodyIn = SeeIssue3 /\ conv.issueMap = Initialised(3 :> 42)) =>
             ReturnedText(SeeIssue42))
    /\ []((pc = "returned" /\ bodyIn = SeeIssue99) => ReturnedText(SeeIssue99))

C9_Witness ==
    /\ pc = "returned"
    /\ bodyIn = SeeIssue3
    /\ conv.issueMap = Initialised(3 :> 42)
    /\ str = SeeIssue42

\* C10: the merge-request pass of convertBody rewrites every same-project
\* reference '!n' whose n is a key of mrMap to '#' and mrMap[n], and leaves
\* every '!n' whose n is not a key exactly as '!n'.
C10_MergeRequestReferencesResolvedThroughMrMap ==
    /\ [][(pc = "mergeRequest" /\ pc' # pc) =>
             str' = WithReferencesResolved(str, "!", conv.mrMap)]_vars
    /\ []((pc = "returned" /\ bodyIn = SeeMergeRequest3 /\ conv.mrMap = Initialised(3 :> 45)) =>
             ReturnedText(SeePullRequest45))
    /\ []((pc = "returned" /\ bodyIn = SeeMergeRequest99) => ReturnedText(SeeMergeRequest99))

C10_Witness ==
    /\ pc = "returned"
    /\ bodyIn = SeeMergeRequest3
    /\ conv.mrMap = Initialised(3 :> 45)
    /\ str = SeePullRequest45

(***************************************************************************)
(* Cross-project references: a key of the project map, the sigil and the   *)
(* digits after it.                                                        *)
(***************************************************************************)
\* the keys of the project map that stand at position i before sigil and digits
KeysAt(projectmap, sigil, s, i) ==
    {j \in 1..Len(projectmap) :
        /\ Starts(s, i, projectmap[j][1] \o <<sigil>>)
        /\ i + Len(projectmap[j][1]) + 1 <= Len(s)
        /\ IsDigit(s[i + Len(projectmap[j][1]) + 1])}

\* the text from position k on, every cross-project reference p<sigil>n as
\* projectmap[p]#n
RECURSIVE CrossResolvedFrom(_, _, _, _)
CrossResolvedFrom(s, sigil, projectmap, k) ==
    LET ahead == {i \in k..Len(s) : KeysAt(projectmap, sigil, s, i) # {}}
        i == Min(ahead)
        j == Min(KeysAt(projectmap, sigil, s, i))
        at == i + Len(projectmap[j][1])
    IN  IF ahead = {} THEN SubSeq(s, k, Len(s))
        ELSE SubSeq(s, k, i - 1) \o projectmap[j][2] \o <<"#">>
                 \o SubSeq(s, at + 1, NumberEnd(s, at))
                 \o CrossResolvedFrom(s, sigil, projectmap, NumberEnd(s, at) + 1)

SecondDestinationIssue3 ==
    <<"t", "t", "#", "3">>

\* C11: for every key p of the project map, the first or a later one, the
\* cross-project pass of convertBody rewrites 'p#n' to projectmap[p] and '#n'
\* with the digits of n as they were, and the issue pass after it leaves that
\* '#n' alone: 'ss#3' with the project map {s: t, ss: tt} and issueMap[3] = 42
\* is returned as 'tt#3'.
C11_EveryProjectKeyKeepsTheNumber ==
    /\ [][(pc = "projectIssue" /\ pc' # pc /\ hasProjectmap) =>
             str' = CrossResolvedFrom(str, "#", settings.projectmap, 1)]_vars
    /\ []((pc = "returned" /\ bodyIn = SecondProjectIssue3 /\ hasProjectmap) =>
             ReturnedText(SecondDestinationIssue3))

(***************************************************************************)
(* Same-project milestone references by number: '%' and the digits after   *)
(* it, at the start of the text or after a character that is not a word    *)
(* character.                                                              *)
(***************************************************************************)
MilestoneStarts(s) ==
    {i \in 1..(Len(s) - 1) :
        s[i] = "%" /\ (i = 1 \/ ~IsWord(s[i - 1])) /\ IsDigit(s[i + 1])}

\* the link of the milestone when the number is a key of the milestone map,
\* else the explicit reference to a deleted milestone
MilestoneRendered(field, number) ==
    IF field.init /\ parseInt(number) \in DOMAIN field.map
    THEN milestoneReplacer(field, number, <<>>)
    ELSE DeletedMilestone \o number \o <<"'">>

RECURSIVE MilestonesRenderedFrom(_, _, _)
MilestonesRenderedFrom(s, field, k) ==
    LET ahead == {i \in MilestoneStarts(s) : i >= k}
    IN  IF ahead = {} THEN SubSeq(s, k, Len(s))
        ELSE SubSeq(s, k, Min(ahead) - 1)
                 \o MilestoneRendered(field, SubSeq(s, Min(ahead) + 1, NumberEnd(s, Min(ahead))))
                 \o MilestonesRenderedFrom(s, field, NumberEnd(s, Min(ahead)) + 1)

NoQuote(s) == \A k \in 1..Len(s) : s[k] # "\""

DeletedMilestone42 ==
    DeletedMilestone \o <<"4", "2", "'">>

\* C12: the milestone pass of convertBody renders every same-project
\* reference '%n' whose n is not a key of the milestone map as 'Reference to
\* deleted milestone %n', wherever it stands in the text; a body that is only
\* '%42', converted without an attribution line and with no milestone 42 in
\* the map, is returned as that string.
C12_MissingMilestoneIsRenderedAsDeleted ==
    /\ [][(pc = "milestone" /\ pc' # pc /\ ~hasProjectmap /\ NoQuote(str)) =>
             str' = MilestonesRenderedFrom(str, conv.milestoneMap, 1)]_vars
    /\ []((pc = "returned" /\ bodyIn = OnlyMilestone42 /\ ~addLine) =>
             str = DeletedMilestone42)

(***************************************************************************)
(* SpecAttachments: convertBody called for one text after another on the   *)
(* same converter, as the transfer functions do for the descriptions and   *)
(* notes of a run, with attachments transferred.                           *)
(***************************************************************************)
MaxCalls == 4

ImageLink ==
    <<"!", "[", "s", "]", "(", "/", "u", "p", "l", "o", "a", "d", "s", "/", "s", ")">>

FileLink ==
    <<"[", "s", "]", "(", "/", "u", "p", "l", "o", "a", "d", "s", "/", "s", ")">>

TwoOrigins ==
    <<"!", "[", "s", "]", "(", "/", "u", "p", "l", "o", "a", "d", "s", "/", "t", ")",
      " ", "[", "s", "]", "(", "/", "u", "p", "l", "o", "a", "d", "s", "/", "s", ")">>

SameLinkTwice ==
    <<"!", "[", "s", "]", "(", "/", "u", "p", "l", "o", "a", "d", "s", "/", "s", ")",
      "!", "[", "s", "]", "(", "/", "u", "p", "l", "o", "a", "d", "s", "/", "s", ")">>

AttachmentBodies ==
    {ImageLink, FileLink, TwoOrigins, SameLinkTwice, Attachments, SeeIssue3}

\* the number of calls counted in calls
RECURSIVE Total(_)
Total(calls) ==
    IF DOMAIN calls = {} THEN 0
    ELSE LET o == CHOOSE x \in DOMAIN calls : TRUE
         IN calls[o] + Total([x \in DOMAIN calls \ {o} |-> calls[x]])

\* the passes of convertBody before the attachments, in their order, those
\* under `if (settings.usermap)` and `if (settings.projectmap)` included when
\* the setting is there
AlwaysRun == {"issue", "milestoneTitle", "milestoneNumber", "mergeRequest"}

PassOrder ==
    SelectSeq(<<"usermap", "projectIssue", "issue", "projectMilestoneTitle",
                "projectMilestoneNumber", "milestoneTitle", "milestoneNumber",
                "projectMergeRequest", "mergeRequest">>,
        LAMBDA pass : \/ pass \in AlwaysRun
                      \/ pass = "usermap" /\ hasUsermap
                      \/ pass \notin AlwaysRun \cup {"usermap"} /\ hasProjectmap)

RECURSIVE replaceAll(_, _)
replaceAll(s, order) ==
    IF order = <<>> THEN s
    ELSE replaceAll(replace(Head(order), s, 1), Tail(order))

\* convertBody up to the attachments: the attribution line and the passes in
\* their order
beforeAttachments(s, it, add) ==
    replaceAll(IF add THEN addMigrationLine(s, it, repoLink) ELSE s, PassOrder)

InitAttachments ==
    /\ source = EmptyProject
    /\ gitlab = source
    /\ github = EmptyRepository
    /\ conv = Constructed
    /\ settings = PlainSettings
    /\ pc = "idle"
    /\ run = 1
    /\ ret = NoResults
    /\ first = NoResults
    /\ IdleRun
    /\ IdleBody
    /\ IdleStorage
    /\ IdleHelpers

CallConvertBody ==
    /\ Total(storage.preprocessAttachment) < MaxCalls
    /\ \E body \in AttachmentBodies, it \in Items, add \in BOOLEAN :
          LET r == convertAttachments(conv.attachmentMap, storage.preprocessAttachment, links,
                       beforeAttachments(body, it, add))
          IN /\ bodyIn' = body
             /\ item' = it
             /\ addLine' = add
             /\ str' = r.str
             /\ conv' = [conv EXCEPT !.attachmentMap = r.attachmentMap]
             /\ storage' = [storage EXCEPT !.preprocessAttachment = r.calls]
             /\ links' = r.links
    /\ pc' = "returned"
    /\ UNCHANGED <<source, gitlab, github, settings, run, ret, first, runVars, transferVars, helperVars>>

NextAttachments ==
    CallConvertBody

SpecAttachments == InitAttachments /\ [][NextAttachments]_vars

(***************************************************************************)
(* Properties of the attachment registry.                                  *)
(***************************************************************************)
\* the targets of the links of s: what stands between '](' and the next ')'
LinkTargets(s) ==
    {SubSeq(s, i + 2, FirstOf(s, i + 2, {")"}) - 1) :
        i \in {k \in 1..(Len(s) - 1) : s[k] = "]" /\ s[k + 1] = "(" /\ FirstOf(s, k + 2, {")"}) # 0}}

RegisteredDestinations == {conv.attachmentMap[o].destination : o \in DOMAIN conv.attachmentMap}

UploadS ==
    Uploads \o <<"/", "s">>

\* C13: whatever bodies were converted, the registry has one entry for each
\* origin that occurred, under its own key, every link written so far for an
\* origin has the destination of that entry, and the links of the text just
\* returned point to destinations of the registry.
C13_OneEntryPerOriginAndOneDestination ==
    /\ DOMAIN conv.attachmentMap = {l.origin : l \in links}
    /\ \A o \in DOMAIN conv.attachmentMap : conv.attachmentMap[o].origin = o
    /\ \A l \in links : conv.attachmentMap[l.origin].destination = l.destination
    /\ pc = "returned" => LinkTargets(str) \subseteq RegisteredDestinations

C13_Witness ==
    /\ pc = "returned"
    /\ bodyIn = ImageLink
    /\ UploadS \in DOMAIN storage.preprocessAttachment
    /\ storage.preprocessAttachment[UploadS] = 2
    /\ DOMAIN conv.attachmentMap = {UploadS}
    /\ LinkTargets(str) = {Host \o ProjectPath \o UploadS}

\* C14: registration is memoized by origin: within a run the storage helper's
\* preprocessAttachment is called at most once for each origin.
C14_PreprocessAtMostOncePerOrigin ==
    \A o \in DOMAIN storage.preprocessAttachment : storage.preprocessAttachment[o] <= 1

\* the text from position k on, every attachment link with its own prefix and
\* name and with the destination of its own url as the target
RECURSIVE LinksRetargetedFrom(_, _)
LinksRetargetedFrom(s, k) ==
    LET at == nextMatch("attachment", s, k)
        link == attachmentLinkAt(s, at)
    IN  IF at = 0 THEN SubSeq(s, k, Len(s))
        ELSE SubSeq(s, k, at + link.len - Len(link.url) - 2)
                 \o Host \o ProjectPath \o link.url \o <<")">>
                 \o LinksRetargetedFrom(s, at + link.len)

TwoOriginsConverted ==
    <<"!", "[", "s", "]", "(", "h", "t", "t", "p", ":", "/", "/", "g", "i", "t", "l",
      "a", "b", ".", "c", "o", "m", "/", "g", "/", "p", "/", "u", "p", "l", "o", "a",
      "d", "s", "/", "t", ")", " ", "[", "s", "]", "(", "h", "t", "t", "p", ":", "/",
      "/", "g", "i", "t", "l", "a", "b", ".", "c", "o", "m", "/", "g", "/", "p", "/",
      "u", "p", "l", "o", "a", "d", "s", "/", "s", ")">>

\* C15: convertAttachments replaces every attachment link of a body by the
\* replacement of that very match: each link, also one of several equal links
\* and image and file links side by side, keeps its '!' or empty prefix and
\* its name, its target becomes the destination of its url, and the text
\* outside the links stays as it was.
C15_EachLinkGetsItsOwnReplacement ==
    pc = "returned" => str = LinksRetargetedFrom(beforeAttachments(bodyIn, item, addLine), 1)

C15_Witness ==
    /\ pc = "returned"
    /\ bodyIn = TwoOrigins
    /\ ~addLine
    /\ str = TwoOriginsConverted

(***************************************************************************)
(* SpecLineRef: addMigrationLine for a note with a diff position.          *)
(***************************************************************************)
MaxLine == 2

\* The positions of a note: a side is absent when its line is null (0 here)
\* or its path is empty.
Positions ==
    [base_sha : {<<"b">>},
     head_sha : {<<>>, <<"h">>},
     new_path : {<<>>, <<"n">>},
     new_line : 0..MaxLine,
     old_path : {<<>>, <<"o">>},
     old_line : 0..MaxLine]

Notes == [author : {<<"s">>}, created_at : {TRUE}, position : Positions]

InitLineRef ==
    /\ source = EmptyProject
    /\ gitlab = source
    /\ github = EmptyRepository
    /\ conv = Constructed
    /\ settings = PlainSettings
    /\ pc = "addMigrationLine"
    /\ run = 1
    /\ ret = NoResults
    /\ first = NoResults
    /\ IdleRun
    /\ IdleStorage
    /\ IdleHelpers
    /\ bodyIn \in {<<>>, <<"s">>}
    /\ str = bodyIn
    /\ item \in Notes
    /\ addLine = TRUE

CallAddMigrationLine ==
    /\ pc = "addMigrationLine"
    /\ str' = addMigrationLine(str, item, repoLink)
    /\ pc' = "returned"
    /\ UNCHANGED <<mapVars, runVars, bodyIn, item, addLine, storageVars, transferVars, helperVars>>

NextLineRef ==
    CallAddMigrationLine

SpecLineRef == InitLineRef /\ [][NextLineRef]_vars

NewSidePresent(position) == position.new_line # 0 /\ position.new_path # <<>>

OldSidePresent(position) == position.old_line # 0 /\ position.old_path # <<>>

\* the side to link: the new one if present, else the old one if present,
\* else none
SideToLink(position) ==
    IF NewSidePresent(position)
    THEN [side |-> <<"R">>, path |-> position.new_path, line |-> position.new_line]
    ELSE IF OldSidePresent(position)
    THEN [side |-> <<"L">>, path |-> position.old_path, line |-> position.old_line]
    ELSE [side |-> <<>>, path |-> <<>>, line |-> 0]

\* C16: the line reference of a note with a diff position names the new path
\* and line whenever the new side is present, the old path and line only
\* when the new side is absent, and only the commit range base_sha..head_sha
\* when no side is present.
C16_LineRefPrefersTheNewSide ==
    (pc = "returned" /\ item.position.head_sha # <<>>) =>
        str = InGitLabBy \o item.author \o On \o FormattedDate \o <<"\n", "\n">>
                  \o lineRefOf(SideToLink(item.position), item.position, repoLink)
                  \o <<"\n", "\n">> \o bodyIn

(***************************************************************************)
(* Mentions: '@' and the characters of a username after it, up to the      *)
(* first character that cannot be part of a username.                      *)
(***************************************************************************)
RECURSIVE NameRun(_, _)
NameRun(s, i) == IF i <= Len(s) /\ IsWord(s[i]) THEN 1 + NameRun(s, i + 1) ELSE 0

\* the user the name is mapped to, the name itself when it is not a key
MappedUser(usermap, name) ==
    IF \E j \in 1..Len(usermap) : usermap[j][1] = name
    THEN usermap[CHOOSE j \in 1..Len(usermap) : usermap[j][1] = name][2]
    ELSE name

RECURSIVE MentionsMappedFrom(_, _, _)
MentionsMappedFrom(s, usermap, k) ==
    LET ahead == {i \in k..Len(s) : s[i] = "@" /\ NameRun(s, i + 1) > 0}
        at == Min(ahead)
        n == NameRun(s, at + 1)
    IN  IF ahead = {} THEN SubSeq(s, k, Len(s))
        ELSE SubSeq(s, k, at) \o MappedUser(usermap, SubSeq(s, at + 1, at + n))
                 \o MentionsMappedFrom(s, usermap, at + n + 1)

\* C17: the user pass of convertBody replaces a mention '@u' of exactly a
\* username u of the user map by '@' and usermap[u], and leaves a mention of
\* another username that begins with u as it is: with {s: t}, '@s' becomes
\* '@t' and '@ss' stays '@ss'.
C17_OnlyWholeUsernamesAreMapped ==
    [][(pc = "usermap" /\ pc' # pc /\ hasUsermap) =>
          str' = MentionsMappedFrom(str, settings.usermap, 1)]_vars

(***************************************************************************)
(* Texts with one reference: a space and the reference after it.           *)
(***************************************************************************)
SpaceIssue3 ==
    <<" ", "#", "3">>

SpaceMergeRequest3 ==
    <<" ", "!", "3">>

SingleReferences ==
    {SpaceIssue3, SpaceMergeRequest3, Milestone9, QuotedMilestone9, MentionOfS, ProjectIssue3,
     ProjectMergeRequest3, ProjectMilestone3}

DeletedQuotedMilestone9 ==
    <<" ">> \o DeletedMilestone \o <<"9", "'">>

\* C18: text that a pass of convertBody has written is not rewritten by a
\* pass after it: once the one reference of a text has been rewritten, no
\* later pass changes the text again, and the deleted-milestone string the
\* title pass writes for '%"9"' comes out as that pass wrote it.
C18_EmittedTextIsNotRewritten ==
    /\ [][(~addLine /\ bodyIn \in SingleReferences /\ str # bodyIn) => str' = str]_vars
    /\ []((pc = "returned" /\ ~addLine /\ bodyIn = QuotedMilestone9
              /\ conv.milestoneMap = Initialised(3 :> [iid |-> 1, title |-> <<"s">>])) =>
             str = DeletedQuotedMilestone9)

(***************************************************************************)
(* SpecTransfer: the try block of migrate(), from its first transfer to    *)
(* 'Transfer complete!', one issue and one merge request at a time.  The   *)
(* destination is empty; the converter is as migrate() has it (no map      *)
(* set) or has the maps of the source.  Every issue has a description with *)
(* an attachment, every merge request one with two.                        *)
(***************************************************************************)
MilestoneMapNotInitialised == "milestoneMap not initialised"

IssueMapUndefined == "TypeError: converter.issueMap is undefined"

NotesRequestFailed == "could not fetch notes"

PlaceholderDescription ==
    <<"T", "h", "i", "s", " ", "i", "s", " ", "t", "o", " ", "e", "n", "s", "u", "r",
      "e", " ", "t", "h", "a", "t", " ", "t", "h", "e", " ", "n", "u", "m", "b", "e",
      "r", "i", "n", "g", " ", "i", "n", " ", "G", "i", "t", "H", "u", "b", " ", "i",
      "s", " ", "c", "o", "n", "s", "i", "s", "t", "e", "n", "t", ".", " ", "I", "n",
      " ", "p", "a", "r", "t", "i", "c", "u", "l", "a", "r", " ", "i", "t", " ", "h",
      "e", "l", "p", "s", " ", "w", "i", "t", "h", " ", "a", "u", "t", "o", "-", "r",
      "e", "f", "e", "r", "e", "n", "c", "e", "s", " ", "i", "n", " ", "c", "o", "m",
      "m", "e", "n", "t", "s", " ", "u", "s", "i", "n", "g", " ", "#", ",", " ", "%",
      ",", " ", "!", ",", " ", "e", "t", "c", ".">>

TransferSources ==
    [milestones : {<<>>}, issues : IssueLists, mergeRequests : MergeRequestLists]

WithMaps(src) ==
    [milestoneMap |-> Initialised(EmptyMap),
     issueMap |-> Initialised(transferIssuesMap(src.issues, TRUE).map),
     mrMap |-> Initialised(transferMergeRequestsMap(src.mergeRequests,
                               transferIssuesMap(src.issues, TRUE).map, TRUE).map),
     attachmentMap |-> EmptyMap]

TransferSettings ==
    {[PlainSettings EXCEPT !.useIssueImportAPI = b] : b \in BOOLEAN}

InitTransfer ==
    /\ source \in TransferSources
    /\ gitlab = source
    /\ github = EmptyRepository
    /\ conv \in {Constructed, WithMaps(source)}
    /\ settings \in TransferSettings
    /\ pc = "try"
    /\ run = 1
    /\ ret = NoResults
    /\ first = NoResults
    /\ IdleRun
    /\ IdleBody
    /\ IdleStorage
    /\ IdleHelpers

\* description of an issue (kind "issue") or merge request of the source, or
\* of a placeholder
descriptionOf(entity, kind) ==
    IF IsPlaceholder(entity) THEN PlaceholderDescription
    ELSE IF kind = "issue" THEN FileLink
    ELSE TwoOrigins

\* convertBody(description, entity) as far as the registry goes: what
\* convertAttachments leaves in attachmentMap, the calls and the links
converted(entity, kind) ==
    IF "attachments" \in settings.transfer
    THEN convertAttachments(conv.attachmentMap, storage.preprocessAttachment, links,
             beforeAttachments(descriptionOf(entity, kind), NoItem, TRUE))
    ELSE [str |-> <<>>, attachmentMap |-> conv.attachmentMap,
          calls |-> storage.preprocessAttachment, links |-> links]

Registered(r) ==
    /\ conv' = [conv EXCEPT !.attachmentMap = r.attachmentMap]
    /\ storage' = [storage EXCEPT !.preprocessAttachment = r.calls]
    /\ links' = r.links

\* catch (err) of migrate(): the error is logged and migrate() goes on to
\* 'Transfer complete!'
Caught(e) == err' = e /\ pc' = "complete"

\* transferDescription, transferMilestones, transferLabels, transferReleases
TransferEarlier ==
    /\ pc = "try"
    /\ \E ok \in BOOLEAN :
          IF ok
          THEN /\ writes' = writes \cup
                      (settings.transfer \cap {"description", "milestones", "labels", "releases"})
               /\ pc' = "transferIssues"
               /\ UNCHANGED err
          ELSE Caught(RequestFailed) /\ UNCHANGED writes
    /\ UNCHANGED <<mapVars, exitCode, rc, bodyVars, storageVars, transferVars, helperVars>>

\* transferIssues up to its second loop: the issues are fetched and sorted,
\* and the placeholders are put in
TransferIssuesStart ==
    /\ pc = "transferIssues"
    /\ IF "issues" \in settings.transfer
       THEN /\ gitlab' = [gitlab EXCEPT !.issues =
                             transferIssuesMap(gitlab.issues,
                                 settings.usePlaceholderIssuesForMissingIssues).items]
            /\ progress' = [progress EXCEPT !.i = 1, !.fetched = github.issues]
            /\ pc' = "issue"
       ELSE /\ pc' = "transferMergeRequests"
            /\ UNCHANGED <<gitlab, progress>>
    /\ UNCHANGED <<source, github, conv, settings, run, ret, first, runVars, bodyVars,
                   storageVars, helperVars>>

\* One round of `for (let issue of issues)`: convertIssue converts the body
\* and then maps the milestone; the notes are fetched; the issue is created.
TransferIssue ==
    /\ pc = "issue"
    /\ IF progress.i > Len(gitlab.issues)
       THEN /\ pc' = "transferMergeRequests"
            /\ progress' = [progress EXCEPT !.i = 0]
            /\ UNCHANGED <<github, conv, storage, links, err, writes>>
       ELSE LET issue == gitlab.issues[progress.i]
                next == [progress EXCEPT !.i = @ + 1, !.issues = @ \cup {issue.iid}]
            IN /\ Registered(converted(issue, "issue"))
               /\ IF ~conv.milestoneMap.init
                  THEN /\ Caught(MilestoneMapNotInitialised)
                       /\ progress' = [progress EXCEPT !.failed = @ \cup {issue.iid}]
                       /\ UNCHANGED <<github, writes>>
                  ELSE IF FindIdx(progress.fetched, issue.title) # 0
                  THEN /\ progress' = next
                       /\ writes' = writes \cup {"issues"}
                       /\ UNCHANGED <<github, err, pc>>
                  ELSE \E notes \in BOOLEAN, created \in BOOLEAN :
                          IF ~notes
                          THEN /\ Caught(NotesRequestFailed)
                               /\ progress' = [progress EXCEPT !.failed = @ \cup {issue.iid}]
                               /\ UNCHANGED <<github, writes>>
                          ELSE IF created
                          THEN /\ github' = [github EXCEPT !.issues =
                                      Append(@, [number |-> nextNumber({github.issues[j].number :
                                                                j \in 1..Len(github.issues)}),
                                                 title |-> issue.title, pull |-> FALSE])]
                               /\ writes' = writes \cup {"issues"}
                               /\ progress' = next
                               /\ UNCHANGED <<err, pc>>
                          ELSE /\ progress' = [next EXCEPT !.failed = @ \cup {issue.iid}]
                               /\ UNCHANGED <<github, writes, err, pc>>
    /\ UNCHANGED <<source, gitlab, settings, run, ret, first, exitCode, rc, bodyVars, helperVars>>

\* transferMergeRequests up to its second loop: the merge requests and the
\* issues of the destination are fetched, Math.max.apply(Math,
\* Array.from(converter.issueMap.values())) is evaluated, and the
\* placeholders are put in.
TransferMergeRequestsStart ==
    /\ pc = "transferMergeRequests"
    /\ IF "mergeRequests" \notin settings.transfer
       THEN /\ pc' = "transferAttachments"
            /\ UNCHANGED <<gitlab, progress, err>>
       ELSE IF ~conv.issueMap.init
       THEN /\ Caught(IssueMapUndefined)
            /\ UNCHANGED <<gitlab, progress>>
       ELSE /\ gitlab' = [gitlab EXCEPT !.mergeRequests =
                             transferMergeRequestsMap(gitlab.mergeRequests, conv.issueMap.map,
                                 settings.usePlaceholderIssuesForMissingMergeRequests).items]
            /\ progress' = [progress EXCEPT !.i = 1, !.fetched = github.issues]
            /\ pc' = "mergeRequest"
            /\ UNCHANGED err
    /\ UNCHANGED <<source, github, conv, settings, run, ret, first, exitCode, writes, rc,
                   bodyVars, storageVars, helperVars>>

\* One round of `for (let mr of mergeRequests)`: convertMergeRequest converts
\* the body; a merge request not found in the destination and not skipped
\* has its notes and the branches fetched, and then the function returns
\* (useIssueImportAPI) or the pull request is created.
TransferMergeRequest ==
    /\ pc = "mergeRequest"
    /\ IF progress.i > Len(gitlab.mergeRequests)
       THEN /\ pc' = "transferAttachments"
            /\ progress' = [progress EXCEPT !.i = 0]
            /\ UNCHANGED <<github, conv, storage, links, err, writes>>
       ELSE LET mr == gitlab.mergeRequests[progress.i]
                next == [progress EXCEPT !.i = @ + 1, !.mergeRequests = @ \cup {mr.iid}]
            IN /\ Registered(converted(mr, "mergeRequest"))
               /\ IF FindIdx(progress.fetched, mr.title) # 0 \/ IsPlaceholder(mr)
                  THEN /\ progress' = next
                       /\ UNCHANGED <<github, writes, err, pc>>
                  ELSE \E fetched \in BOOLEAN, created \in BOOLEAN :
                          IF ~fetched
                          THEN /\ Caught(NotesRequestFailed)
                               /\ UNCHANGED <<github, writes, progress>>
                          ELSE IF settings.useIssueImportAPI
                          THEN /\ pc' = "transferAttachments"
                               /\ progress' = [next EXCEPT !.i = 0]
                               /\ UNCHANGED <<github, writes, err>>
                          ELSE IF created
                          THEN /\ github' = [github EXCEPT !.issues =
                                      Append(@, [number |-> nextNumber({github.issues[j].number :
                                                                j \in 1..Len(github.issues)}),
                                                 title |-> mr.title, pull |-> TRUE])]
                               /\ writes' = writes \cup {"mergeRequests"}
                               /\ progress' = next
                               /\ UNCHANGED <<err, pc>>
                          ELSE /\ progress' = next
                               /\ UNCHANGED <<github, writes, err, pc>>
    /\ UNCHANGED <<source, gitlab, settings, run, ret, first, exitCode, rc, bodyVars, helperVars>>

\* Array.from(converter.attachmentMap.values()).map(storageHelper.migrateAttachment)
RECURSIVE migrateAll(_, _)
migrateAll(calls, origins) ==
    IF origins = {} THEN calls
    ELSE LET o == CHOOSE x \in origins : TRUE
         IN migrateAll(Called(calls, o), origins \ {o})

TransferAttachments ==
    /\ pc = "transferAttachments"
    /\ storage' = IF "attachments" \in settings.transfer
                  THEN [storage EXCEPT !.migrateAttachment =
                           migrateAll(@, DOMAIN conv.attachmentMap)]
                  ELSE storage
    /\ pc' = "complete"
    /\ UNCHANGED <<mapVars, runVars, bodyVars, links, transferVars, helperVars>>

NextTransfer ==
    \/ TransferEarlier
    \/ TransferIssuesStart
    \/ TransferIssue
    \/ TransferMergeRequestsStart
    \/ TransferMergeRequest
    \/ TransferAttachments

SpecTransfer == InitTransfer /\ [][NextTransfer]_vars

(***************************************************************************)
(* Properties of the transfers.                                            *)
(***************************************************************************)
\* every issue and merge request of the source has been through its loop,
\* and every entry of the registry has been handed to migrateAttachment
AllProcessed ==
    /\ progress.issues = {source.issues[k].iid : k \in 1..Len(source.issues)}
                             \cup {gitlab.issues[k].iid : k \in 1..Len(gitlab.issues)}
    /\ progress.mergeRequests =
           {source.mergeRequests[k].iid : k \in 1..Len(source.mergeRequests)}
               \cup {gitlab.mergeRequests[k].iid : k \in 1..Len(gitlab.mergeRequests)}
    /\ DOMAIN storage.migrateAttachment = DOMAIN conv.attachmentMap

\* C19: an exception raised for one issue, in its conversion, in fetching
\* its notes or in its creation, does not end the migration of the others:
\* when migrate() is through its try block, the other issues, the merge
\* requests and the attachments have been processed.
C19_OneFailedIssueDoesNotAbortTheOthers ==
    (pc = "complete" /\ progress.failed # {} /\ ~settings.useIssueImportAPI) => AllProcessed

\* every entry of the registry has been handed to migrateAttachment once
Drained ==
    \A o \in DOMAIN conv.attachmentMap :
        o \in DOMAIN storage.migrateAttachment /\ storage.migrateAttachment[o] = 1

\* C20: the registry is drained only after the conversions: migrateAttachment
\* is not called while transferIssues and transferMergeRequests are at work
\* (convertBody and convertAttachments never call it), and when migrate() is
\* through its try block with attachments transferred, every entry registered
\* during the conversions has been handed to migrateAttachment exactly once.
C20_RegistryIsDrainedAfterTheConversions ==
    /\ storage.migrateAttachment # EmptyMap => pc = "complete"
    /\ (pc = "complete" /\ "attachments" \in settings.transfer) => Drained

(***************************************************************************)
(* The builders of the converter against the inline maps of the transfer   *)
(* functions.                                                              *)
(***************************************************************************)
\* C21: for the same source, destination and placeholder settings, the map
\* each builder of the converter returns (buildMilestoneMap, buildIssueMap,
\* buildMergeRequestMap) equals the map the matching transfer function
\* derives in its loop (transferMilestones, transferIssues,
\* transferMergeRequests).
C21_BuilderAndInlineMapsAgree ==
    (run = 1 /\ pc = "rerun") =>
        /\ ret.milestoneMap.map = ret.transferMilestones.map
        /\ ret.issueMap.map = ret.transferIssues.map
        /\ (Ok(ret.mrMap) /\ Ok(ret.transferMergeRequests)) =>
               ret.mrMap.map = ret.transferMergeRequests.map

(***************************************************************************)
(* SpecPullRequests: the second loop of transferMergeRequests, one merge   *)
(* request at a time, with GitHubHelper.createPullRequest and checkBranch. *)
(* A branch is on GitHub, only on GitLab, or gone from both.               *)
(***************************************************************************)
MaxMergeRequests == 2

MergeRequestStates == {"opened", "merged", "closed"}

\* the sorted merge requests of the project, each in one of its states
StatefulMergeRequests ==
    UNION {[1..n -> {[iid |-> k, id |-> k, title |-> <<"merge request", k>>, state |-> s] :
                        k \in 1..MaxMergeRequests, s \in MergeRequestStates}] :
              n \in 1..MaxMergeRequests}

SortedMergeRequests ==
    {l \in StatefulMergeRequests : \A i \in 1..Len(l) : l[i].iid = i}

PullRequestSettings ==
    [useIssueImportAPI : BOOLEAN,
     useIssuesForAllMergeRequests : BOOLEAN,
     skipMergeRequestStates : {{}, {"merged"}},
     transfer : {AllTransfers}]

\* an empty repository, and one that holds merge request 1 as a pull request
PullRequestDestinations ==
    { EmptyRepository,
      [milestones |-> <<>>,
       issues |-> <<[number |-> 1, title |-> <<"merge request", 1>>, pull |-> TRUE]>>] }

InitPullRequests ==
    /\ source \in [milestones : {<<>>}, issues : {<<>>}, mergeRequests : SortedMergeRequests]
    /\ gitlab = source
    /\ github \in PullRequestDestinations
    /\ conv = Constructed
    /\ settings \in PullRequestSettings
    /\ pc = "pullRequest"
    /\ run = 1
    /\ ret = NoResults
    /\ first = NoResults
    /\ IdleRun
    /\ IdleBody
    /\ storage = NoCalls
    /\ links = {}
    /\ progress = [NoProgress EXCEPT !.i = 1, !.fetched = github.issues]
    /\ IdleHelpers

BranchPlaces == {"github", "gitlab", "gone"}

\* checkBranch(branch, gitlabBranchNames): true when GitHub has the branch;
\* when it has not, an Error if GitLab still has it, else false
checkBranch(place) ==
    CASE place = "github" -> [threw |-> FALSE, value |-> TRUE]
      [] place = "gitlab" -> [threw |-> TRUE, value |-> FALSE]
      [] place = "gone" -> [threw |-> FALSE, value |-> FALSE]

\* createPullRequest(prData, comments, gitlabBranchNames) by what it settles
\* with: "pull" (the pull request was created), "issue" (status 422, then
\* createIssueForPullRequest), "false" (returned false), "throws".
\* response is the answer to pulls.create.
createPullRequest(useIssuesForAllMergeRequests, base, head, response) ==
    IF useIssuesForAllMergeRequests THEN "false"
    ELSE IF checkBranch(base).threw THEN "throws"
    ELSE IF ~checkBranch(base).value THEN "false"
    ELSE IF checkBranch(head).threw THEN "throws"
    ELSE IF ~checkBranch(head).value THEN "false"
    ELSE CASE response = "created" -> "pull"
           [] response = "422" -> "issue"
           [] OTHER -> "throws"

\* .then(result => { if (result === false) { } })
\*    .then(_ => counters.nrOfMigratedMergeRequests++)
\*    .catch(err => { counters.nrOfFailedMergeRequests++; ... })
counted(c, result) ==
    IF result = "throws"
    THEN [c EXCEPT !.nrOfFailedMergeRequests = @ + 1]
    ELSE [c EXCEPT !.nrOfMigratedMergeRequests = @ + 1]

\* what the destination holds after createPullRequest settled with result
destinationAfter(issues, mr, result) ==
    IF result \in {"pull", "issue"}
    THEN Append(issues, [number |-> nextNumber({issues[j].number : j \in 1..Len(issues)}),
                         title |-> mr.title, pull |-> result = "pull"])
    ELSE issues

\* One round of `for (let mr of mergeRequests)`.
TransferPullRequest ==
    /\ pc = "pullRequest"
    /\ IF progress.i > Len(gitlab.mergeRequests)
       THEN /\ pc' = "mergeRequestsDone"
            /\ UNCHANGED <<github, progress, err, counters, requests>>
       ELSE LET mr == gitlab.mergeRequests[progress.i]
                next == [progress EXCEPT !.i = @ + 1, !.mergeRequests = @ \cup {mr.iid}]
            IN IF FindIdx(progress.fetched, mr.title) # 0
                  \/ mr.state \in settings.skipMergeRequestStates
               THEN /\ progress' = next
                    /\ UNCHANGED <<github, err, pc, counters, requests>>
               ELSE \E fetched \in BOOLEAN, base \in BranchPlaces, head \in BranchPlaces,
                       response \in {"created", "422", "error"} :
                       IF ~fetched
                       THEN /\ err' = NotesRequestFailed
                            /\ pc' = "mergeRequestsDone"
                            /\ UNCHANGED <<github, progress, counters, requests>>
                       ELSE IF settings.useIssueImportAPI
                       THEN /\ pc' = "mergeRequestsDone"
                            /\ progress' = next
                            /\ UNCHANGED <<github, err, counters, requests>>
                       ELSE LET result == createPullRequest(
                                              settings.useIssuesForAllMergeRequests,
                                              base, head, response)
                            IN /\ requests' = Append(requests, [iid |-> mr.iid, result |-> result])
                               /\ github' = [github EXCEPT !.issues =
                                                destinationAfter(@, mr, result)]
                               /\ counters' = counted(counters, result)
                               /\ progress' = next
                               /\ UNCHANGED <<err, pc>>
    /\ UNCHANGED <<source, gitlab, conv, settings, run, ret, first, exitCode, writes, rc,
                   bodyVars, storageVars, cache, poll, promise, noteList, comments>>

NextPullRequests ==
    TransferPullRequest

SpecPullRequests == InitPullRequests /\ [][NextPullRequests]_vars

(***************************************************************************)
(* Properties of the merge request loop.                                   *)
(***************************************************************************)
\* the merge requests createPullRequest was called for with the result
AttemptsWith(results) == {k \in 1..Len(requests) : requests[k].result \in results}

\* the entities the loop has created at the destination
CreatedEntities == Len(github.issues) - Len(progress.fetched)

\* C22: when createPullRequest returns false for a merge request
\* (useIssuesForAllMergeRequests, or a branch gone from GitHub and GitLab), an
\* issue is created at the destination for it, and no merge request is
\* counted as migrated without an entity created for it.
C22_NoPullRequestMeansAnIssue ==
    /\ \A k \in AttemptsWith({"false"}) :
           \E j \in 1..Len(github.issues) :
               /\ github.issues[j].title = <<"merge request", requests[k].iid>>
               /\ ~github.issues[j].pull
    /\ counters.nrOfMigratedMergeRequests <= CreatedEntities

\* the merge requests that have no pull request or issue at the destination
\* and whose state is not skipped
Eligible ==
    {k \in 1..Len(source.mergeRequests) :
        /\ FindIdx(progress.fetched, source.mergeRequests[k].title) = 0
        /\ source.mergeRequests[k].state \notin settings.skipMergeRequestStates}

\* C28: when transferMergeRequests is over, every merge request without a
\* match at the destination and with a state that is not skipped has had
\* exactly one createPullRequest attempt and is counted as migrated or as
\* failed, with or without useIssueImportAPI and whatever happened to the
\* merge requests before it.
C28_EveryMergeRequestIsAttemptedOnce ==
    pc = "mergeRequestsDone" =>
        /\ \A k \in Eligible :
               Cardinality({a \in 1..Len(requests) :
                               requests[a].iid = source.mergeRequests[k].iid}) = 1
        /\ counters.nrOfMigratedMergeRequests + counters.nrOfFailedMergeRequests
               = Cardinality(Eligible)

(***************************************************************************)
(* SpecImport: GitHubHelper.requestImportIssue.  The POST starts the       *)
(* import; request() sleeps for backoff ms, asks for the status and        *)
(* handles the answer.  The caller holds the promise of the first          *)
(* request(); a pending answer calls request() again without returning     *)
(* its promise.  backoff is kept as the fraction num / den.                *)
(***************************************************************************)
delayInMs == 2000

maxRetries == 5

ImportStatuses == {"pending", "imported", "failed"}

FailedIssueImport == "Failed issue import"

NoResponse == "No response after 5 retries"

Pending == [state |-> "pending", value |-> <<>>, error |-> ""]

ResolvedWith(value) == [state |-> "resolved", value |-> value, error |-> ""]

RejectedWith(error) == [state |-> "rejected", value |-> <<>>, error |-> error]

\* backoff *= 1.5
grown(backoff) == [num |-> backoff.num * 3, den |-> backoff.den * 2]

\* backoff / this.delayInMs > 1.5 ** maxRetries
exceeded(backoff) ==
    backoff.num * (2 ^ maxRetries) > (3 ^ maxRetries) * backoff.den * delayInMs

\* The .then(response => { switch (response.data.status) ... }) of request():
\* what the promise of this request() settles with, and whether request()
\* was called again.  The default case ends without a return statement.
requestHandler(status, number, backoff) ==
    CASE status = "imported" -> [settled |-> ResolvedWith(<<number>>), again |-> FALSE]
      [] status = "failed" -> [settled |-> RejectedWith(FailedIssueImport), again |-> FALSE]
      [] OTHER ->
           IF exceeded(grown(backoff))
           THEN [settled |-> RejectedWith(NoResponse), again |-> FALSE]
           ELSE [settled |-> ResolvedWith(<<>>), again |-> TRUE]

InitImport ==
    /\ source = EmptyProject
    /\ gitlab = source
    /\ github = EmptyRepository
    /\ conv = Constructed
    /\ settings = PlainSettings
    /\ pc = "requestImportIssue"
    /\ run = 1
    /\ ret = NoResults
    /\ first = NoResults
    /\ IdleRun
    /\ IdleBody
    /\ IdleStorage
    /\ counters = NoCounters
    /\ requests = <<>>
    /\ cache = <<>>
    /\ poll \in {[NoPoll EXCEPT !.number = n] : n \in 1..MaxIid}
    /\ promise = NoPromise
    /\ noteList = <<>>
    /\ comments = <<>>

\* let pending = await this.githubApi.request(`POST .../import/issues`, ...);
\* then `return request()`
RequestImportIssue ==
    /\ pc = "requestImportIssue"
    /\ \E ok \in BOOLEAN :
          IF ok
          THEN /\ poll' = [poll EXCEPT !.live = TRUE,
                                       !.backoff = [num |-> delayInMs, den |-> 1]]
               /\ promise' = Pending
               /\ requests' = Append(requests, "POST import/issues")
               /\ pc' = "polling"
          ELSE /\ promise' = RejectedWith(RequestFailed)
               /\ requests' = Append(requests, "POST import/issues")
               /\ pc' = "settled"
               /\ UNCHANGED poll
    /\ UNCHANGED <<mapVars, runVars, bodyVars, storageVars, transferVars, counters, cache,
                   noteList, comments>>

\* One request(): the status is asked for and handled.  Only the promise of
\* the first request() is the one the caller holds; what a later request()
\* settles with goes nowhere, and its rejection is unhandled.
Poll ==
    /\ pc = "polling"
    /\ poll.live
    /\ \E status \in ImportStatuses :
          LET h == requestHandler(status, poll.number, poll.backoff)
          IN /\ poll' = [poll EXCEPT
                            !.polls = @ + 1,
                            !.status = status,
                            !.backoff = IF status = "pending" THEN grown(@) ELSE @,
                            !.live = h.again,
                            !.unhandled = IF poll.polls > 0 THEN h.settled.error ELSE @]
             /\ promise' = IF poll.polls = 0 THEN h.settled ELSE promise
             /\ requests' = Append(requests, "GET import/issues")
             /\ pc' = IF h.again THEN "polling" ELSE "settled"
    /\ UNCHANGED <<mapVars, runVars, bodyVars, storageVars, transferVars, counters, cache,
                   noteList, comments>>

\* transferIssues after `await githubHelper.createIssueAndComments(...)`:
\* .then(() => console.log('...done migrating issue')) or
\* .catch(err => { ...; counters.nrOfFailedIssues++; ... }), and on to the
\* next issue.  It runs as soon as the promise is settled, whether or not a
\* request() is still polling.
AfterImport ==
    /\ promise.state \in {"resolved", "rejected"}
    /\ progress.issues = {}
    /\ progress' = [progress EXCEPT !.issues = {poll.number},
                                    !.failed = IF promise.state = "rejected"
                                               THEN {poll.number} ELSE {}]
    /\ counters' = IF promise.state = "rejected"
                   THEN [counters EXCEPT !.nrOfFailedIssues = @ + 1]
                   ELSE counters
    /\ UNCHANGED <<mapVars, pc, runVars, bodyVars, storageVars, requests, cache, poll, promise,
                   noteList, comments>>

NextImport ==
    \/ RequestImportIssue
    \/ Poll
    \/ AfterImport

SpecImport == InitImport /\ [][NextImport]_vars

(***************************************************************************)
(* Properties of requestImportIssue.                                       *)
(***************************************************************************)
\* C23: when the import reports 'imported', after any number of pending
\* polls, the promise of requestImportIssue is resolved with the number of
\* the imported issue; it is never resolved with undefined.
C23_ResolvesWithTheIssueNumber ==
    /\ poll.status = "imported" => promise = ResolvedWith(<<poll.number>>)
    /\ promise.state = "resolved" => promise.value # <<>>

\* C26: the polling ends: an import that never reports 'imported' or 'failed'
\* is asked for its status a bounded number of times, after which the
\* promise the caller holds is rejected with the 'No response after 5
\* retries' error; a 'failed' status rejects the caller's promise as well.
C26_PollingEndsAndTheCallerIsTold ==
    /\ poll.polls <= maxRetries + 1
    /\ (pc = "settled" /\ poll.status = "pending") => promise = RejectedWith(NoResponse)
    /\ poll.status = "failed" => promise = RejectedWith(FailedIssueImport)

(***************************************************************************)
(* SpecNotes: RepoConverter.convertNotes and checkIfNoteCanBeSkipped on    *)
(* bounded lists of notes.  The regular expressions all carry the i flag:  *)
(* they are tested against the body in lower case.                         *)
(***************************************************************************)
MaxNotes == 2

StatusChangedTo ==
    <<"s", "t", "a", "t", "u", "s", " ", "c", "h", "a", "n", "g", "e", "d", " ", "t",
      "o", " ">>

StatusChangedToClosedByCommit ==
    <<"s", "t", "a", "t", "u", "s", " ", "c", "h", "a", "n", "g", "e", "d", " ", "t",
      "o", " ", "c", "l", "o", "s", "e", "d", " ", "b", "y", " ", "c", "o", "m", "m",
      "i", "t">>

ChangedMilestoneTo ==
    <<"c", "h", "a", "n", "g", "e", "d", " ", "m", "i", "l", "e", "s", "t", "o", "n",
      "e", " ", "t", "o", " ">>

MilestoneChangedTo ==
    <<"m", "i", "l", "e", "s", "t", "o", "n", "e", " ", "c", "h", "a", "n", "g", "e",
      "d", " ", "t", "o", " ">>

AssignedTo ==
    <<"a", "s", "s", "i", "g", "n", "e", "d", " ", "t", "o", " ">>

AddedSome ==
    <<"a", "d", "d", "e", "d", " ">>

SomeLabels ==
    <<" ", "l", "a", "b", "e", "l", "s">>

AddedTilde ==
    <<"a", "d", "d", "e", "d", " ", "~">>

SomeLabel ==
    <<" ", "l", "a", "b", "e", "l">>

RemovedTilde ==
    <<"r", "e", "m", "o", "v", "e", "d", " ", "~">>

MentionedInIssue ==
    <<"m", "e", "n", "t", "i", "o", "n", "e", "d", " ", "i", "n", " ", "i", "s", "s",
      "u", "e", " ", "#">>

MentionedInMergeRequest ==
    <<"m", "e", "n", "t", "i", "o", "n", "e", "d", " ", "i", "n", " ", "m", "e", "r",
      "g", "e", " ", "r", "e", "q", "u", "e", "s", "t", " ", "!">>

ChangedTheDescription ==
    <<"c", "h", "a", "n", "g", "e", "d", " ", "t", "h", "e", " ", "d", "e", "s", "c",
      "r", "i", "p", "t", "i", "o", "n">>

ChangedTitleFrom ==
    <<"c", "h", "a", "n", "g", "e", "d", " ", "t", "i", "t", "l", "e", " ", "f", "r",
      "o", "m">>

StatusClosed ==
    <<"S", "t", "a", "t", "u", "s", " ", "c", "h", "a", "n", "g", "e", "d", " ", "t",
      "o", " ", "c", "l", "o", "s", "e", "d">>

StatusClosedByCommit ==
    <<"S", "t", "a", "t", "u", "s", " ", "c", "h", "a", "n", "g", "e", "d", " ", "t",
      "o", " ", "c", "l", "o", "s", "e", "d", " ", "b", "y", " ", "c", "o", "m", "m",
      "i", "t", " ", "3">>

AssignedToS ==
    <<"a", "s", "s", "i", "g", "n", "e", "d", " ", "t", "o", " ", "@", "s">>

MentionedInIssue3 ==
    <<"m", "e", "n", "t", "i", "o", "n", "e", "d", " ", "i", "n", " ", "i", "s", "s",
      "u", "e", " ", "#", "3">>

BodyOk ==
    <<"o", "k">>

UpperCase ==
    <<"A", "B", "C", "D", "E", "F", "G", "H", "I", "J", "K", "L", "M", "N", "O", "P", "Q",
      "R", "S", "T", "U", "V", "W", "X", "Y", "Z">>

LowerCase ==
    <<"a", "b", "c", "d", "e", "f", "g", "h", "i", "j", "k", "l", "m", "n", "o", "p", "q",
      "r", "s", "t", "u", "v", "w", "x", "y", "z">>

\* the text as a regular expression with the i flag reads it
toLowerCase(s) ==
    [k \in 1..Len(s) |->
        IF \E u \in 1..Len(UpperCase) : UpperCase[u] = s[k]
        THEN LowerCase[CHOOSE u \in 1..Len(UpperCase) : UpperCase[u] = s[k]]
        ELSE s[k]]

\* /w/ matches somewhere from position i on
Includes(s, i, w) == \E k \in i..Len(s) : Starts(s, k, w)

\* /^.*w/ from position i: w comes after characters none of which ends a line
LaterOnLine(s, i, w) ==
    \E k \in i..Len(s) :
        /\ Starts(s, k, w)
        /\ \A j \in i..(k - 1) : s[j] \notin {"\n", "\r"}

\* /^(Re)*/: the position after the leading repetitions of 're'
RECURSIVE AfterRe(_, _)
AfterRe(s, i) == IF Starts(s, i, <<"r", "e">>) THEN AfterRe(s, i + 2) ELSE i

\* the AfterRe positions a match of /^(Re)*assigned to / may start from: the
\* repetition may stop at any point
ReStops(s) == {i \in 1..AfterRe(s, 1) : i % 2 = 1}

\* const stateChange = ...
stateChange(body) ==
    LET b == toLowerCase(body)
    IN \/ /\ Includes(b, 1, StatusChangedTo)
          /\ ~Includes(b, 1, StatusChangedToClosedByCommit)
       \/ Starts(b, 1, ChangedMilestoneTo)
       \/ Starts(b, 1, MilestoneChangedTo)
       \/ \E i \in ReStops(b) : Starts(b, i, AssignedTo)
       \/ Starts(b, 1, AddedSome) /\ LaterOnLine(b, Len(AddedSome) + 1, SomeLabels)
       \/ Starts(b, 1, AddedTilde) /\ LaterOnLine(b, Len(AddedTilde) + 1, SomeLabel)
       \/ Starts(b, 1, RemovedTilde) /\ LaterOnLine(b, Len(RemovedTilde) + 1, SomeLabel)
       \/ Starts(b, 1, MentionedInIssue) /\ DigitRun(b, Len(MentionedInIssue) + 1) > 0
       \/ /\ Starts(b, 1, MentionedInMergeRequest)
          /\ DigitRun(b, Len(MentionedInMergeRequest) + 1) > 0
       \/ Starts(b, 1, ChangedTheDescription)
       \/ /\ Starts(b, 1, ChangedTitleFrom)
          /\ LaterOnLine(b, Len(ChangedTitleFrom) + 1, <<"t", "o">>)

\* settings.skipMatchingComments.reduce(
\*     (a, b) => a || new RegExp(b, 'i').test(body), false)
matchingComment(skipMatchingComments, body) ==
    \E j \in 1..Len(skipMatchingComments) :
        Includes(toLowerCase(body), 1, toLowerCase(skipMatchingComments[j]))

checkIfNoteCanBeSkipped(skipMatchingComments, note) ==
    stateChange(note.body) \/ matchingComment(skipMatchingComments, note.body)

\* settings.github.token_owner
TokenOwner == <<"t">>

\* userIsCreator(author)
userIsCreator(usermap, author) ==
    /\ author # <<>>
    /\ \/ \E j \in 1..Len(usermap) : usermap[j][1] = author /\ usermap[j][2] = TokenOwner
       \/ author = TokenOwner

\* Array.prototype.filter(keep)
RECURSIVE filter(_, _)
filter(s, skipMatchingComments) ==
    IF s = <<>> THEN <<>>
    ELSE (IF checkIfNoteCanBeSkipped(skipMatchingComments, Head(s)) THEN <<Head(s)>> ELSE <<>>)
             \o filter(Tail(s), skipMatchingComments)

\* a filter that keeps the notes which cannot be skipped
RECURSIVE filterOutSkipped(_, _)
filterOutSkipped(s, skipMatchingComments) ==
    IF s = <<>> THEN <<>>
    ELSE (IF checkIfNoteCanBeSkipped(skipMatchingComments, Head(s)) THEN <<>> ELSE <<Head(s)>>)
             \o filterOutSkipped(Tail(s), skipMatchingComments)

\* the comment made of a note: the bodies here hold no attachment link, so
\* convertBody leaves the registry alone
commentOf(note) ==
    [created_at |-> note.created_at,
     body |-> beforeAttachments(note.body, note,
                  ~userIsCreator(settings.usermap, note.author) \/ note.body = <<>>)]

\* notes.sort((a, b) => a.id - b.id).filter(...).map(note => ...)
convertNotes(noteArray, skipMatchingComments) ==
    LET kept == filter(SortBy(noteArray, "id"), skipMatchingComments)
    IN [k \in 1..Len(kept) |-> commentOf(kept[k])]

NoteBodies ==
    {StatusClosed, StatusClosedByCommit, AssignedToS, MentionedInIssue3, SeeIssue3, BodyOk}

NoteSet ==
    [id : 1..MaxNotes, body : NoteBodies, author : {<<"s">>, TokenOwner}, created_at : {TRUE}]

NoteLists ==
    {l \in UNION {[1..n -> NoteSet] : n \in 1..MaxNotes} :
        \A i, j \in 1..Len(l) : i # j => l[i].id # l[j].id}

NotesSettings ==
    {[f \in DOMAIN PlainSettings \cup {"skipMatchingComments"} |->
         IF f = "skipMatchingComments" THEN skip ELSE PlainSettings[f]] :
       skip \in {<<>>, <<BodyOk>>}}

InitNotes ==
    /\ source = EmptyProject
    /\ gitlab = source
    /\ github = EmptyRepository
    /\ conv = Constructed
    /\ settings \in NotesSettings
    /\ pc = "convertNotes"
    /\ run = 1
    /\ ret = NoResults
    /\ first = NoResults
    /\ IdleRun
    /\ IdleBody
    /\ IdleStorage
    /\ counters = NoCounters
    /\ requests = <<>>
    /\ cache = <<>>
    /\ poll = NoPoll
    /\ promise = NoPromise
    /\ noteList \in NoteLists
    /\ comments = <<>>

\* convertNotes(notes): the array is sorted in place
CallConvertNotes ==
    /\ pc = "convertNotes"
    /\ comments' = convertNotes(noteList, settings.skipMatchingComments)
    /\ noteList' = SortBy(noteList, "id")
    /\ pc' = "returned"
    /\ UNCHANGED <<mapVars, runVars, bodyVars, storageVars, transferVars, counters, requests,
                   cache, poll, promise>>

NextNotes ==
    CallConvertNotes

SpecNotes == InitNotes /\ [][NextNotes]_vars

(***************************************************************************)
(* Properties of convertNotes.                                             *)
(***************************************************************************)
\* the notes that must be processed, in ascending order of their ids
ToProcess == filterOutSkipped(SortBy(noteList, "id"), settings.skipMatchingComments)

\* C24: convertNotes returns one comment for each note that cannot be
\* skipped and none for a note checkIfNoteCanBeSkipped is true of (a state
\* change, or a body matching settings.skipMatchingComments), in ascending
\* order of the note ids.
C24_CommentsAreTheNotesToProcess ==
    pc = "returned" =>
        comments = [k \in 1..Len(ToProcess) |-> commentOf(ToProcess[k])]

(***************************************************************************)
(* SpecCache: the cached getters of GitLabHelper, called one after the     *)
(* other on one helper.  The file holds two variants of the class: in the  *)
(* first the catch of a getter returns [], in the second it rethrows.  An  *)
(* array is its reference and its items: the callers sort the array they   *)
(* get in place and splice placeholders into it.                           *)
(***************************************************************************)
MaxQueries == 3

Collections == {"allBranches", "allMilestones", "allIssues", "allMergeRequests"}

\* private allBranches?: GitLabBranch[]: undefined until assigned
NotFetched == [set |-> FALSE, ref |-> 0, items |-> <<>>]

\* what the GitLab API answers to X.all(...): an error, or a list
Responses ==
    {[error |-> TRUE, items |-> <<>>]}
        \cup {[error |-> FALSE, items |-> l] : l \in {<<>>, <<2, 1>>}}

NewHelper(rethrows) ==
    [rethrows |-> rethrows, arrays |-> 0, lists |-> [c \in Collections |-> NotFetched]]

\* numbers.sort((a, b) => a - b)
RECURSIVE sortNumbers(_)
sortNumbers(s) ==
    IF s = <<>> THEN <<>>
    ELSE LET k == CHOOSE k \in 1..Len(s) : \A j \in 1..Len(s) : s[k] <= s[j]
         IN <<s[k]>> \o sortNumbers([j \in 1..(Len(s) - 1) |-> IF j < k THEN s[j] ELSE s[j + 1]])

\* a test that also takes an empty array for a missing one
truthyIfFilled(list) == list.set /\ list.items # <<>>

\* if (!this.allBranches): undefined is falsy, every array is truthy
truthy(list) == list.set

\* the helper after the body of a getter, for the answer the API would give
assigned(helper, c, response) ==
    IF truthy(helper.lists[c]) \/ (response.error /\ helper.rethrows) THEN helper
    ELSE [helper EXCEPT !.arrays = @ + 1,
                        !.lists[c] = [set |-> TRUE, ref |-> helper.arrays + 1,
                                      items |-> response.items]]

\* the call as the caller sees it
returned(helper, c, response) ==
    LET after == assigned(helper, c, response)
    IN [collection |-> c,
        queried |-> ~truthy(helper.lists[c]),
        outcome |-> IF after.lists[c].set THEN "list" ELSE "throws",
        ref |-> after.lists[c].ref,
        items |-> after.lists[c].items]

getAll(c) ==
    /\ Len(requests) < MaxQueries
    /\ \E response \in Responses :
        /\ cache' = assigned(cache, c, response)
        /\ requests' = Append(requests, returned(cache, c, response))
    /\ UNCHANGED <<mapVars, runVars, bodyVars, storageVars, transferVars, pc, counters, poll,
                   promise, noteList, comments>>

getAllBranches ==
    /\ pc = "helper"
    /\ getAll("allBranches")

getAllMilestones ==
    /\ pc = "helper"
    /\ getAll("allMilestones")

getAllIssues ==
    /\ pc = "helper"
    /\ getAll("allIssues")

getAllMergeRequests ==
    /\ pc = "helper"
    /\ getAll("allMergeRequests")

\* issues = issues.sort(...) and issues.splice(i, 0, placeholder) in the
\* callers: the array the getter returned is changed in place (0 stands for
\* the placeholders, which are spliced in once)
CallerChangesList ==
    /\ pc = "helper"
    /\ \E c \in Collections \ {"allBranches"} :
        /\ truthy(cache.lists[c])
        /\ \/ cache' = [cache EXCEPT !.lists[c].items = sortNumbers(@)]
           \/ /\ \A k \in 1..Len(cache.lists[c].items) : cache.lists[c].items[k] # 0
              /\ cache' = [cache EXCEPT !.lists[c].items = Append(@, 0)]
        /\ cache' # cache
    /\ UNCHANGED <<mapVars, runVars, bodyVars, storageVars, transferVars, pc, counters, requests,
                   poll, promise, noteList, comments>>

InitCache ==
    /\ source = EmptyProject
    /\ gitlab = source
    /\ github = EmptyRepository
    /\ conv = Constructed
    /\ settings = PlainSettings
    /\ pc = "helper"
    /\ run = 1
    /\ ret = NoResults
    /\ first = NoResults
    /\ IdleRun
    /\ IdleBody
    /\ IdleStorage
    /\ counters = NoCounters
    /\ requests = <<>>
    /\ cache \in {NewHelper(rethrows) : rethrows \in BOOLEAN}
    /\ poll = NoPoll
    /\ promise = NoPromise
    /\ noteList = <<>>
    /\ comments = <<>>

NextCache ==
    \/ getAllBranches
    \/ getAllMilestones
    \/ getAllIssues
    \/ getAllMergeRequests
    \/ CallerChangesList

SpecCache == InitCache /\ [][NextCache]_vars

(***************************************************************************)
(* Properties of the cached getters.                                       *)
(***************************************************************************)
\* call j comes after call i for the same collection, and call i returned a list
LaterCalls ==
    {p \in (1..Len(requests)) \X (1..Len(requests)) :
        /\ p[1] < p[2]
        /\ requests[p[1]].collection = requests[p[2]].collection
        /\ requests[p[1]].outcome = "list"}

\* C25: once a getter has returned a list, no later call for that collection
\* queries the GitLab API, and every later call returns that same array; the
\* array it returns is the one the helper holds, with the changes the
\* callers made to it.
C25_GettersAreCached ==
    /\ \A p \in LaterCalls :
        /\ ~requests[p[2]].queried
        /\ requests[p[2]].outcome = "list"
        /\ requests[p[2]].ref = requests[p[1]].ref
    /\ \A c \in Collections :
        Cardinality({i \in 1..Len(requests) :
            /\ requests[i].collection = c
            /\ requests[i].queried
            /\ requests[i].outcome = "list"}) <= 1
    /\ (requests # <<>> /\ requests[Len(requests)].outcome = "list") =>
           cache.lists[requests[Len(requests)].collection].ref = requests[Len(requests)].ref

\* a getter is called again after it returned an empty list, and again after
\* the caller changed the list it had got
C25_Witness ==
    /\ \E p \in LaterCalls : requests[p[1]].items = <<>>
    /\ \E p \in LaterCalls : requests[p[2]].items # requests[p[1]].items

(***************************************************************************)
(* Properties of the order of recreate() and migrate().                    *)
(***************************************************************************)
\* the steps of migrate() that send requests to GitHub
GithubRequestSteps ==
    {"registerRepoId", "buildMilestoneMap", "buildIssueMap", "buildMergeRequestMap",
     "mapPhaseSettled"}

\* githubHelper.recreateRepo() has sent a request and not got the last answer
Recreating == rc \in {"delete", "create"}

\* C27: when the repository is deleted and created again, that is over
\* before migrate() sends its first request to GitHub: no step of migrate()
\* that sends a request to GitHub is taken while the deletion or the
\* creation is under way.
C27_RecreateCompletesBeforeMigration ==
    [][(pc \in GithubRequestSteps /\ pc' # pc) => ~Recreating]_vars

(***************************************************************************)
(* SpecComments: GitHubHelper.createComments and createComment.  A request *)
(* sent to GitHub is in flight until GitHub answers it.                    *)
(***************************************************************************)
MaxComments == 3

CommentLists ==
    UNION {[1..n -> {[created_at |-> TRUE, body |-> BodyOk]}] : n \in 0..MaxComments}

CommentSettings ==
    {[f \in DOMAIN PlainSettings \cup {"debug"} |->
         IF f = "debug" THEN debug ELSE PlainSettings[f]] : debug \in BOOLEAN}

\* let nrOfMigratedNotes = 0; for (let comment of comments)
NoComments == [nrOfMigratedNotes |-> 0, i |-> 1]

InitComments ==
    /\ source = EmptyProject
    /\ gitlab = source
    /\ github = EmptyRepository
    /\ conv = Constructed
    /\ settings \in CommentSettings
    /\ pc = "createComments"
    /\ run = 1
    /\ ret = NoResults
    /\ first = NoResults
    /\ IdleRun
    /\ IdleBody
    /\ IdleStorage
    /\ counters = NoComments
    /\ requests = <<>>
    /\ cache = <<>>
    /\ poll = NoPoll
    /\ promise = NoPromise
    /\ noteList = <<>>
    /\ comments \in CommentLists

\* createComment: what the promise resolves with, and the requests after it.
\* The callback of sleep(...).then sends the request, drops its promise and
\* returns true; the catch sees only what the callback itself throws.
createComment(debug, sent, k) ==
    IF debug THEN [wasMigrated |-> TRUE, requests |-> sent]
    ELSE [wasMigrated |-> TRUE,
          requests |-> Append(sent, [comment |-> k, state |-> "inFlight"])]

\* one turn of the loop of createComments
CreateComment ==
    /\ pc = "createComments"
    /\ counters.i <= Len(comments)
    /\ LET r == createComment(settings.debug, requests, counters.i)
       IN /\ requests' = r.requests
          /\ counters' = [nrOfMigratedNotes |->
                              counters.nrOfMigratedNotes + (IF r.wasMigrated THEN 1 ELSE 0),
                          i |-> counters.i + 1]
    /\ UNCHANGED <<mapVars, runVars, bodyVars, storageVars, transferVars, pc, cache, poll,
                   promise, noteList, comments>>

\* the end of the loop: the count is logged and the item returned
CommentsDone ==
    /\ pc = "createComments"
    /\ counters.i > Len(comments)
    /\ pc' = "commentsDone"
    /\ UNCHANGED <<mapVars, runVars, bodyVars, storageVars, transferVars, helperVars>>

\* GitHub answers a request: the comment is created, or the request fails
\* and its promise, which nothing holds, rejects
CommentAnswered ==
    /\ \E k \in 1..Len(requests) :
        /\ requests[k].state = "inFlight"
        /\ \E state \in {"created", "failed"} :
               requests' = [requests EXCEPT ![k].state = state]
    /\ UNCHANGED <<mapVars, runVars, bodyVars, storageVars, transferVars, pc, counters, cache,
                   poll, promise, noteList, comments>>

NextComments ==
    \/ CreateComment
    \/ CommentsDone
    \/ CommentAnswered

SpecComments == InitComments /\ [][NextComments]_vars

(***************************************************************************)
(* Properties of createComments.                                           *)
(***************************************************************************)
Created == {k \in 1..Len(requests) : requests[k].state = "created"}

\* C29: the count createComments reports is the number of comments that
\* were created (a failed request counts for nothing), and the request for
\* a comment is sent only after the request for the comment before it was
\* answered: only the last request sent can be in flight.
C29_CountIsCreatedAndRequestsAreSerial ==
    /\ pc = "commentsDone" => counters.nrOfMigratedNotes = Cardinality(Created)
    /\ \A k \in 1..(Len(requests) - 1) : requests[k].state # "inFlight"

(***************************************************************************)
(* SpecCreation: the loop of transferIssues seen from GitHub.  A creation  *)
(* request is an issues.create request or an import; it is in flight until *)
(* GitHub has created the issue or refused it.  An issue GitHub creates    *)
(* gets the next number.                                                   *)
(***************************************************************************)
MaxIssues == 3

CreationSettings ==
    {[f \in DOMAIN PlainSettings \cup {"useReplacementIssuesForCreationFails"} |->
         IF f = "useReplacementIssuesForCreationFails" THEN replacement
         ELSE IF f = "useIssueImportAPI" THEN import
         ELSE PlainSettings[f]] : replacement \in BOOLEAN, import \in BOOLEAN}

\* counters, and the position of the loop over the issues
NoCreations == [nrOfFailedIssues |-> 0, nrOfReplacementIssues |-> 0, i |-> 1]

InitCreation ==
    /\ source \in {[EmptyProject EXCEPT !.issues = [k \in 1..n |-> Issue(k)]] : n \in 1..MaxIssues}
    /\ gitlab = source
    /\ github = EmptyRepository
    /\ conv = Constructed
    /\ settings \in CreationSettings
    /\ pc = "transferIssues"
    /\ run = 1
    /\ ret = NoResults
    /\ first = NoResults
    /\ IdleRun
    /\ IdleBody
    /\ IdleStorage
    /\ counters = NoCreations
    /\ requests = <<>>
    /\ cache = <<>>
    /\ poll = NoPoll
    /\ promise = NoPromise
    /\ noteList = <<>>
    /\ comments = <<>>

\* the number GitHub gives the next issue it creates
nextIssueNumber(sent) ==
    Cardinality({k \in 1..Len(sent) : sent[k].state = "created"}) + 1

\* a creation request in the state GitHub has brought it to
creation(sent, iid, kind, state) ==
    [iid |-> iid, kind |-> kind, state |-> state,
     number |-> IF state = "created" THEN nextIssueNumber(sent) ELSE 0]

\* The states a creation can be in when the promise of createIssueAndComments
\* settles.  createIssue resolves or rejects with the answer to the request.
\* requestImportIssue also resolves when the first poll finds the import
\* pending, and the import goes on.
settledWith(useIssueImportAPI) ==
    IF useIssueImportAPI THEN {"created", "failed", "inFlight"} ELSE {"created", "failed"}

\* does the promise reject: the creation failed, or createComments or
\* updateIssueData failed after it
rejects(useIssueImportAPI, state, later) ==
    state = "failed" \/ (~useIssueImportAPI /\ state = "created" /\ later)

\* the .catch of the loop: the replacement issue is requested and the
\* promise of the request is left alone
afterCatch(sent, iid, useReplacementIssuesForCreationFails) ==
    IF useReplacementIssuesForCreationFails
    THEN Append(sent, creation(sent, iid, "replacement", "inFlight"))
    ELSE sent

\* one turn of the loop for an issue that is not in the repository yet
CreateIssueAndComments ==
    /\ pc = "transferIssues"
    /\ counters.i <= Len(gitlab.issues)
    /\ \E state \in settledWith(settings.useIssueImportAPI), later \in BOOLEAN :
        LET iid == gitlab.issues[counters.i].iid
            sent == Append(requests, creation(requests, iid, "issue", state))
        IN IF rejects(settings.useIssueImportAPI, state, later)
           THEN /\ requests' = afterCatch(sent, iid,
                                   settings.useReplacementIssuesForCreationFails)
                /\ counters' = [counters EXCEPT !.nrOfFailedIssues = @ + 1, !.i = @ + 1]
           ELSE /\ requests' = sent
                /\ counters' = [counters EXCEPT !.i = @ + 1]
    /\ UNCHANGED <<mapVars, runVars, bodyVars, storageVars, transferVars, pc, cache, poll,
                   promise, noteList, comments>>

\* the end of the loop
IssuesDone ==
    /\ pc = "transferIssues"
    /\ counters.i > Len(gitlab.issues)
    /\ pc' = "issuesDone"
    /\ UNCHANGED <<mapVars, runVars, bodyVars, storageVars, transferVars, helperVars>>

\* GitHub creates or refuses an issue whose request is in flight; the .then
\* of a replacement request counts the replacement issue
CreationAnswered ==
    /\ \E k \in 1..Len(requests), state \in {"created", "failed"} :
        /\ requests[k].state = "inFlight"
        /\ requests' = [requests EXCEPT
               ![k] = creation(requests, requests[k].iid, requests[k].kind, state)]
        /\ counters' = IF requests[k].kind = "replacement" /\ state = "created"
                       THEN [counters EXCEPT !.nrOfReplacementIssues = @ + 1]
                       ELSE counters
    /\ UNCHANGED <<mapVars, runVars, bodyVars, storageVars, transferVars, pc, cache, poll,
                   promise, noteList, comments>>

NextCreation ==
    \/ CreateIssueAndComments
    \/ IssuesDone
    \/ CreationAnswered

SpecCreation == InitCreation /\ [][NextCreation]_vars

(***************************************************************************)
(* Properties of the order in which the issues are created.                *)
(***************************************************************************)
\* the source issue the loop has reached
CurrentIid == IF requests = <<>> THEN 0 ELSE requests[Len(requests)].iid

\* C30: the issues are created one at a time in ascending order of their
\* iids: a creation request, the one for a replacement issue included, is
\* in flight only while the loop is at its issue, and the numbers GitHub
\* gives the created issues ascend with the iids.
C30_IssuesAreCreatedOneAtATimeInIidOrder ==
    /\ \A k \in 1..Len(requests) :
        requests[k].state = "inFlight" => requests[k].iid = CurrentIid
    /\ \A j, k \in 1..Len(requests) :
        (requests[j].state = "created" /\ requests[k].state = "created"
            /\ requests[j].iid < requests[k].iid) => requests[j].number < requests[k].number

====
